---- MODULE Spec2Model ----
(***************************************************************************)
(* One telephony <-> realtime-AI bridge session of the voice server        *)
(* (the twilioWss "connection" closure), its transcript aggregation and    *)
(* its post-call transcription pipeline.                                   *)
(***************************************************************************)
EXTENDS Integers, Sequences, FiniteSets, TLC

VARIABLES
  twilioWs,                      \* readyState of the telephony socket
  oa,                            \* readyState of every socket connectOpenAI created
  openaiWs,                      \* 0 (undefined) or the socket the closure variable holds
  streamSid,                     \* "" (null) or the latched stream identifier
  callActive,
  userTranscriptionPartials,     \* key -> [id, text]
  inboundAudioPcmChunks,         \* sequence of PCM16 buffers (byte sequences)
  postCallTranscriptionStarted,
  fetchPending,                  \* the transcription request of the async block is in flight
  apiKey,                        \* OPENAI_API_KEY is set
  submitted,                     \* WAV containers posted to the transcription service
  published,                     \* observer events broadcast, in order
  aiSent,                        \* frames sent on each AI socket, in order
  twilioSent,                    \* frames sent on the telephony socket, in order
  transcriptClients,             \* the observer registry: the registered observers
  observerState,                 \* readyState of every observer socket
  received,                      \* events delivered to each observer, in order
  sendFailures,                  \* observers whose send threw during the last handler
  aiIn,                          \* AI-socket messages handled so far, in order
  twilioIn,                      \* telephony frames the relay specification delivered, in order
  prompts,                       \* the PromptStore map: id -> record
  now,                           \* Date.now()
  issued,                        \* every record putPrompt stored, by id
  lookups,                       \* the getPrompt calls so far: id, time and result
  startLocals,                   \* the locals of each `start` branch awaiting its socket
  muLawByte,                     \* the byte given to decodeMuLawSample
  pcmSample,                     \* what decodeMuLawSample returned for it
  pcmChunks,                     \* the chunks given to createWavFromPcmChunks
  wav,                           \* what createWavFromPcmChunks returned for them
  processEnv,                    \* process.env: OPENAI_MODEL and OPENAI_TRANSCRIPTION_MODELS
  configured,                    \* the session.update frame connectOpenAI built from it
  textValue,                     \* the value given to textFrom
  extracted,                     \* what textFrom returned for it
  serviceResponse,               \* what the transcription service answered, where told apart
  peer,                          \* a second session of the same process, as a record
  lastOp,                        \* the handler that ran last
  tornDown,                      \* safeClose has been entered at least once
  budget                         \* frames and socket errors the environment may still deliver

vars == << twilioWs, oa, openaiWs, streamSid, callActive, userTranscriptionPartials,
           inboundAudioPcmChunks, postCallTranscriptionStarted, fetchPending, apiKey,
           submitted, published, aiSent, twilioSent, transcriptClients, observerState,
           received, sendFailures, aiIn, twilioIn, prompts, now, issued,
           lookups, startLocals, muLawByte, pcmSample, pcmChunks, wav, processEnv,
           configured, textValue, extracted, serviceResponse, peer, lastOp, tornDown,
           budget >>

promptVars == << prompts, now, issued, lookups, startLocals >>
configVars == << processEnv, configured >>
textVars == << textValue, extracted >>
pureVars == << muLawByte, pcmSample, pcmChunks, wav, configVars, textVars >>
codecVars == << pureVars, serviceResponse >>
observerVars == << transcriptClients, observerState, received, sendFailures >>

----------------------------------------------------------------------------
(* Bounds of the model *)

MaxStarts == 2        \* `start` events of one session (each creates one AI socket)
MaxEvents == 4        \* frames and socket errors delivered to one session
MaxLiveEvents == 3    \* the same, in the specification with fairness
MaxAggEvents == 5     \* transcription events of the aggregator specification
MaxRelayEvents == 4   \* frames of the relay specification
MaxPrompts == 1       \* records stored in the PromptStore
MaxPromptEvents == 5  \* requests, clock steps and frames of the PromptStore specification
MaxChunks == 3        \* chunks given to createWavFromPcmChunks
MaxObservers == 2     \* observer connections
MaxObserverEvents == 4  \* frames and observer events of the observer specification
MaxPairEvents == 3    \* frames delivered to two sessions of one process
MaxItems == 2         \* elements of an array given to textFrom
MaxVariantEvents == 2 \* transcription events of the event-name variants specification
MaxPostCallEvents == 4  \* frames of the post-call specification
MaxLatchEvents == 4   \* frames of the stream identifier specification

ConnIds == 1..MaxStarts
Observers == 1..MaxObservers

----------------------------------------------------------------------------
(* Program constants *)

MULAW_BIAS == 132
SAMPLE_RATE_HZ == 8000
WavHeaderLen == 44
EXPIRY_MS == 600000

----------------------------------------------------------------------------
(* AudioCodec and WavContainerBuilder *)

decodeMuLawSample(value) ==
  LET mu == 255 - value
      sign == mu \div 128
      exponent == (mu % 128) \div 16
      mantissa == mu % 16
      s0 == ((mantissa * 16) + 8) * (2 ^ (exponent + 3))
      s1 == s0 - MULAW_BIAS
      s2 == IF sign # 0 THEN 0 - s1 ELSE s1
      s3 == IF s2 > 32767 THEN 32767 ELSE s2
  IN IF s3 < -32768 THEN -32768 ELSE s3

\* Buffer.writeInt16LE: two's complement, low byte first.
Int16LE(sample) ==
  LET v == (sample + 65536) % 65536 IN << v % 256, v \div 256 >>

UInt32LE(n) == << n % 256, (n \div 256) % 256, (n \div 65536) % 256, (n \div 16777216) % 256 >>
UInt16LE(n) == << n % 256, (n \div 256) % 256 >>

\* Buffer.from(base64, "base64") on the payloads the model delivers.
Base64Bytes(base64) ==
  CASE base64 = "/w==" -> << 255 >>
    [] base64 = "AA==" -> << 0 >>
    [] base64 = "gA==" -> << 128 >>
    [] OTHER -> << >>            \* "" and "=" hold no complete byte

RECURSIVE PcmOf(_)
PcmOf(bytes) ==
  IF bytes = << >> THEN << >>
  ELSE Int16LE(decodeMuLawSample(Head(bytes))) \o PcmOf(Tail(bytes))

NoBuffer == << "null" >>

decodeMuLawBase64ToPcm16(base64) ==
  IF base64 = "" THEN NoBuffer ELSE PcmOf(Base64Bytes(base64))

RECURSIVE Concat(_)
Concat(chunks) ==
  IF chunks = << >> THEN << >> ELSE Head(chunks) \o Concat(Tail(chunks))

\* createWavFromPcmChunks writing the data length as the RIFF chunk size.
createWavRiffSizeOfData(chunks) ==
  IF Len(chunks) = 0 THEN NoBuffer
  ELSE LET data == Concat(chunks)
           header == << 82, 73, 70, 70 >> \o UInt32LE(Len(data))
                     \o << 87, 65, 86, 69 >> \o << 102, 109, 116, 32 >>
                     \o UInt32LE(16) \o UInt16LE(1) \o UInt16LE(1)
                     \o UInt32LE(SAMPLE_RATE_HZ) \o UInt32LE(SAMPLE_RATE_HZ * 2)
                     \o UInt16LE(2) \o UInt16LE(16)
                     \o << 100, 97, 116, 97 >> \o UInt32LE(Len(data))
       IN header \o data

createWavFromPcmChunks(chunks) ==
  IF Len(chunks) = 0 THEN NoBuffer
  ELSE LET data == Concat(chunks)
           header == << 82, 73, 70, 70 >> \o UInt32LE(36 + Len(data))
                     \o << 87, 65, 86, 69 >> \o << 102, 109, 116, 32 >>
                     \o UInt32LE(16) \o UInt16LE(1) \o UInt16LE(1)
                     \o UInt32LE(SAMPLE_RATE_HZ) \o UInt32LE(SAMPLE_RATE_HZ * 2)
                     \o UInt16LE(2) \o UInt16LE(16)
                     \o << 100, 97, 116, 97 >> \o UInt32LE(Len(data))
       IN header \o data

----------------------------------------------------------------------------
(* Configuration from the environment and the session.update frame *)

\* No variable of the environment is set.
UnsetEnv == [ OPENAI_MODEL |-> "", OPENAI_TRANSCRIPTION_MODELS |-> "", names |-> { } ]

OPENAI_MODEL(env) == IF env.OPENAI_MODEL # "" THEN env.OPENAI_MODEL ELSE "gpt-realtime"
OPENAI_TRANSCRIPTION_MODEL == "gpt-4o-mini-transcribe"

\* The place of the first "," of a string, 0 when it has none.
FirstComma(str) ==
  IF \E i \in 1..Len(str) : SubSeq(str, i, i) = ","
  THEN CHOOSE i \in 1..Len(str) :
         /\ SubSeq(str, i, i) = ","
         /\ \A j \in 1..(i - 1) : SubSeq(str, j, j) # ","
  ELSE 0

\* String.prototype.split(",")
RECURSIVE Split(_)
Split(str) ==
  IF FirstComma(str) = 0 THEN << str >>
  ELSE << SubSeq(str, 1, FirstComma(str) - 1) >>
       \o Split(SubSeq(str, FirstComma(str) + 1, Len(str)))

\* String.prototype.trim() on the white space the model's strings hold.
RECURSIVE Trim(_)
Trim(str) ==
  IF str = "" THEN ""
  ELSE IF SubSeq(str, 1, 1) = " " THEN Trim(SubSeq(str, 2, Len(str)))
  ELSE IF SubSeq(str, Len(str), Len(str)) = " " THEN Trim(SubSeq(str, 1, Len(str) - 1))
  ELSE str

\* parseCsv(value) collected into the Set built from it.
parseCsv(value) ==
  LET parts == Split(value)
  IN { Trim(parts[i]) : i \in DOMAIN parts } \ { "" }

TRANSCRIPTION_MODEL_ALLOWLIST(env) == parseCsv(env.OPENAI_TRANSCRIPTION_MODELS)

\* /^gpt-4o-realtime-preview/.test(model)
MatchesRealtimePreview(model) ==
  /\ Len(model) >= Len("gpt-4o-realtime-preview")
  /\ SubSeq(model, 1, Len("gpt-4o-realtime-preview")) = "gpt-4o-realtime-preview"

\* modelSupportsInputAudioTranscription letting the pattern enable what the
\* allow-list leaves out.
modelSupportsListOrPattern(model, allowlist) ==
  IF model = "" THEN FALSE
  ELSE model \in allowlist \/ MatchesRealtimePreview(model)

modelSupportsInputAudioTranscription(model, allowlist) ==
  IF model = "" THEN FALSE
  ELSE IF Cardinality(allowlist) > 0 THEN model \in allowlist
  ELSE MatchesRealtimePreview(model)

\* The sessionUpdate object of connectOpenAI as it is sent (the audio formats
\* and turn detection, which are fixed, left out).
SessionUpdateFrame(env, instructions, voice) ==
  LET base == [ type |-> "session.update", model |-> OPENAI_MODEL(env),
                instructions |-> instructions,
                voice |-> IF voice # "" THEN voice ELSE "alloy" ]
  IN IF modelSupportsInputAudioTranscription(OPENAI_MODEL(env),
                                             TRANSCRIPTION_MODEL_ALLOWLIST(env))
     THEN base @@ [ input_audio_transcription |-> [ model |-> OPENAI_TRANSCRIPTION_MODEL ] ]
     ELSE base

----------------------------------------------------------------------------
(* The session closure: state as one record, handlers as functions on it *)

\* The loop over the registry with a send that throws ending the loop: the
\* observers after the failing one get nothing.
DeliverAbortingOnFailure(rcv, clients, obs, failing, event) ==
  [ o \in Observers |->
      IF /\ o \in clients
         /\ obs[o] = "OPEN"
         /\ \A f \in failing : (f \in clients /\ obs[f] = "OPEN") => o < f
      THEN Append(rcv[o], event)
      ELSE rcv[o] ]

\* for (const client of transcriptClients)
\*   if (client.readyState === WebSocket.OPEN) { try { client.send(msg); } catch {} }
\* What the observers have received after the loop ran for one event.
Deliver(rcv, clients, obs, failing, event) ==
  [ o \in Observers |->
      IF o \in clients /\ obs[o] = "OPEN" /\ o \notin failing
      THEN Append(rcv[o], event)
      ELSE rcv[o] ]

\* The loop run for each event of a handler in turn: the registry and the
\* sockets do not change while a handler runs.
RECURSIVE DeliverEach(_, _, _, _, _)
DeliverEach(rcv, clients, obs, failing, events) ==
  IF events = << >> THEN rcv
  ELSE DeliverEach(Deliver(rcv, clients, obs, failing, Head(events)),
                   clients, obs, failing, Tail(events))

St == [ twilioWs |-> twilioWs, oa |-> oa, openaiWs |-> openaiWs,
        streamSid |-> streamSid, callActive |-> callActive,
        partials |-> userTranscriptionPartials,
        chunks |-> inboundAudioPcmChunks,
        started |-> postCallTranscriptionStarted,
        fetchPending |-> fetchPending, submitted |-> submitted,
        published |-> published, aiSent |-> aiSent, twilioSent |-> twilioSent,
        tornDown |-> tornDown,
        clients |-> transcriptClients, obs |-> observerState, received |-> received,
        failing |-> { } ]             \* no send throws unless the step says so

Apply(s) ==
  /\ twilioWs' = s.twilioWs
  /\ oa' = s.oa
  /\ openaiWs' = s.openaiWs
  /\ streamSid' = s.streamSid
  /\ callActive' = s.callActive
  /\ userTranscriptionPartials' = s.partials
  /\ inboundAudioPcmChunks' = s.chunks
  /\ postCallTranscriptionStarted' = s.started
  /\ fetchPending' = s.fetchPending
  /\ submitted' = s.submitted
  /\ published' = s.published
  /\ aiSent' = s.aiSent
  /\ twilioSent' = s.twilioSent
  /\ tornDown' = s.tornDown
  /\ received' = DeliverEach(received, transcriptClients, observerState, s.failing,
                             SubSeq(s.published, Len(published) + 1, Len(s.published)))
  /\ sendFailures' = s.failing

\* JavaScript a || b on strings ("" is falsy).
Or(a, b) == IF a # "" THEN a ELSE b

NoIndex == -1                    \* content_index absent from the message

\* WebSocket.close(): only an OPEN socket starts its closing handshake.
WsClose(state) == IF state = "OPEN" THEN "CLOSING" ELSE state

\* twilioWs.send(frame) of a frame built without the stream identifier.
TwilioSendWithoutStreamSid(s, frame) ==
  IF s.twilioWs = "OPEN"
  THEN [ s EXCEPT !.twilioSent = Append(@, [ frame EXCEPT !.streamSid = "" ]) ]
  ELSE s

\* twilioWs.send(frame): a socket that is not OPEN drops the frame.
TwilioSend(s, frame) ==
  IF s.twilioWs = "OPEN" THEN [ s EXCEPT !.twilioSent = Append(@, frame) ] ELSE s

\* openaiWs?.send(frame), errors swallowed.
OpenAISend(s, frame) ==
  IF s.openaiWs # 0 /\ s.oa[s.openaiWs] = "OPEN"
  THEN [ s EXCEPT !.aiSent[s.openaiWs] = Append(@, frame) ]
  ELSE s

StatusEvent(status, sid) == [ type |-> "status", status |-> status, streamSid |-> sid ]

\* The two broadcast functions: the event is recorded as published, and the
\* step that ran the handler delivers it (Apply).
broadcastTranscriptStatus(s, status) ==
  IF status = "" THEN s
  ELSE [ s EXCEPT !.published = Append(@, StatusEvent(status, s.streamSid)) ]

broadcastTranscript(s, payload) ==
  [ s EXCEPT !.published = Append(@, payload) ]

\* JavaScript values as textFrom tells them apart: undefined, a string, a number,
\* an array of values, an object with its fields (an absent field is undefined).
JsUndefined == [ kind |-> "undefined" ]
JsString(str) == [ kind |-> "string", str |-> str ]
JsNumber(n) == [ kind |-> "number", n |-> n ]
JsArray(items) == [ kind |-> "array", items |-> items ]
JsObject(fields) == [ kind |-> "object", fields |-> fields ]

\* typeof v === "string"
IsString(v) == v.kind = "string"

RECURSIVE textFrom(_)
textFrom(value) ==
  LET RECURSIVE Join(_)
      Join(items) == IF items = << >> THEN ""
                     ELSE textFrom(Head(items)) \o Join(Tail(items))
  IN CASE value.kind = "string" -> value.str          \* "" is falsy: returns ""
       [] value.kind = "array" -> Join(value.items)
       [] value.kind = "object" ->
            LET f == value.fields
            IN CASE IsString(f.text) -> f.text.str
                 [] IsString(f.transcript) -> f.transcript.str
                 [] IsString(f.delta) -> f.delta.str
                 [] IsString(f.content) -> f.content.str
                 [] IsString(f.value) -> f.value.str
                 [] OTHER -> ""
       [] OTHER -> ""                                 \* undefined, 0, any other number

userKeyFor(itemId, contentIndex) ==
  Or(itemId, "user") \o ":" \o ToString(IF contentIndex = NoIndex THEN 0 ELSE contentIndex)

MapPut(m, k, v) == [ x \in (DOMAIN m) \cup {k} |-> IF x = k THEN v ELSE m[x] ]
MapDelete(m, k) == [ x \in (DOMAIN m) \ {k} |-> m[x] ]

----------------------------------------------------------------------------
(* PromptStore and the resolution of voice and model on `start` (server.js) *)

\* process.env.OPENAI_MODEL and process.env.OPENAI_VOICE of the modelled process.
EnvOpenAIModel == "m1"
EnvOpenAIVoice == ""

DEFAULT_MODEL == Or(EnvOpenAIModel, "gpt-realtime")
DEFAULT_VOICE == Or(EnvOpenAIVoice, "alloy")
MODEL_IDS == { DEFAULT_MODEL, "gpt-realtime-mini-2025-10-06" }

NoPrompt == [ found |-> FALSE ]       \* null
NoLocals == [ started |-> FALSE ]     \* no `start` branch is suspended on this socket

\* crypto.randomUUID(): the n-th identifier drawn, different from all before.
NewPromptId(n) == "p" \o ToString(n)

putPrompt(ps, t, id, instructions, voice, model) ==
  MapPut(ps, id, [ found |-> TRUE, instructions |-> instructions, voice |-> voice,
                   model |-> model, createdAt |-> t ])

\* getPrompt comparing the wrong way round: no record ever expires.
getPromptNeverExpiring(ps, t, id) ==
  IF id \notin DOMAIN ps THEN [ p |-> NoPrompt, prompts |-> ps ]
  ELSE IF ps[id].createdAt - t > EXPIRY_MS
       THEN [ p |-> NoPrompt, prompts |-> MapDelete(ps, id) ]
       ELSE [ p |-> ps[id], prompts |-> ps ]

\* getPrompt(id) at time t: the result and the map it leaves.
getPrompt(ps, t, id) ==
  IF id \notin DOMAIN ps THEN [ p |-> NoPrompt, prompts |-> ps ]
  ELSE IF t - ps[id].createdAt > EXPIRY_MS
       THEN [ p |-> NoPrompt, prompts |-> MapDelete(ps, id) ]
       ELSE [ p |-> ps[id], prompts |-> ps ]

composeInstructions(userInstructions) ==
  "BASE_RULES" \o (IF userInstructions # ""
                   THEN "\n\nCaller-specific instructions:\n" \o userInstructions
                   ELSE "")

chosenModel(model) == IF model \in MODEL_IDS THEN model ELSE DEFAULT_MODEL

\* The session.update frame connectOpenAI(instructions, voice, model) sends.
sessionUpdate(instructions, voice, model) ==
  [ type |-> "session.update", model |-> chosenModel(model),
    instructions |-> composeInstructions(instructions),
    voice |-> Or(voice, DEFAULT_VOICE) ]

\* A field of the record p, "" (undefined) when p is null: p?.field
FieldOf(p, field) == IF p.found THEN p[field] ELSE ""

\* The `start` branch preferring the custom parameters to the stored record.
StartLocalsHintsFirst(params, p) ==
  [ started |-> TRUE, params |-> params, p |-> p,
    instructions |-> FieldOf(p, "instructions"),
    voice |-> Or(params.voice, Or(FieldOf(p, "voice"), DEFAULT_VOICE)),
    model |-> Or(params.model, Or(FieldOf(p, "model"), DEFAULT_MODEL)) ]

\* The locals of the `start` branch once the prompt is resolved.
StartLocals(params, p) ==
  [ started |-> TRUE, params |-> params, p |-> p,
    instructions |-> FieldOf(p, "instructions"),
    voice |-> Or(FieldOf(p, "voice"), Or(params.voice, DEFAULT_VOICE)),
    model |-> Or(FieldOf(p, "model"), Or(params.model, DEFAULT_MODEL)) ]

\* pushUserTranscriptDelta storing the fragment instead of appending it.
pushUserTranscriptDeltaReplacing(s, itemId, fallbackId, contentIndex, chunk) ==
  IF chunk = "" THEN s
  ELSE LET key == userKeyFor(Or(itemId, fallbackId), contentIndex)
           has == key \in DOMAIN s.partials
           id == Or(IF has THEN s.partials[key].id ELSE "", Or(itemId, Or(fallbackId, key)))
           s1 == [ s EXCEPT !.partials = MapPut(@, key, [ id |-> id, text |-> chunk ]) ]
       IN broadcastTranscript(s1,
            [ type |-> "transcript", role |-> "user", id |-> id,
              text |-> chunk, append |-> TRUE ])

\* pushUserTranscriptDelta emitting the accumulated text instead of the fragment.
pushUserTranscriptDeltaEmittingTotal(s, itemId, fallbackId, contentIndex, chunk) ==
  IF chunk = "" THEN s
  ELSE LET key == userKeyFor(Or(itemId, fallbackId), contentIndex)
           has == key \in DOMAIN s.partials
           id == Or(IF has THEN s.partials[key].id ELSE "", Or(itemId, Or(fallbackId, key)))
           text == (IF has THEN s.partials[key].text ELSE "") \o chunk
           s1 == [ s EXCEPT !.partials = MapPut(@, key, [ id |-> id, text |-> text ]) ]
       IN broadcastTranscript(s1,
            [ type |-> "transcript", role |-> "user", id |-> id,
              text |-> text, append |-> TRUE ])

pushUserTranscriptDelta(s, itemId, fallbackId, contentIndex, chunk) ==
  IF chunk = "" THEN s
  ELSE LET key == userKeyFor(Or(itemId, fallbackId), contentIndex)
           has == key \in DOMAIN s.partials
           id == Or(IF has THEN s.partials[key].id ELSE "", Or(itemId, Or(fallbackId, key)))
           text == (IF has THEN s.partials[key].text ELSE "") \o chunk
           s1 == [ s EXCEPT !.partials = MapPut(@, key, [ id |-> id, text |-> text ]) ]
       IN broadcastTranscript(s1,
            [ type |-> "transcript", role |-> "user", id |-> id,
              text |-> chunk, append |-> TRUE ])

\* finalizeUserTranscript preferring the accumulated text to the explicit one.
finalizeUserTranscriptLocalFirst(s, itemId, fallbackId, contentIndex, finalText) ==
  LET key == userKeyFor(Or(itemId, fallbackId), contentIndex)
      has == key \in DOMAIN s.partials
      id == Or(IF has THEN s.partials[key].id ELSE "", Or(itemId, Or(fallbackId, key)))
      text == Or(IF has THEN s.partials[key].text ELSE "", finalText)
      s1 == [ s EXCEPT !.partials = MapDelete(@, key) ]
  IN broadcastTranscript(s1,
       IF text # ""
       THEN [ type |-> "transcript", role |-> "user", id |-> id, final |-> TRUE,
              text |-> text, append |-> FALSE ]
       ELSE [ type |-> "transcript", role |-> "user", id |-> id, final |-> TRUE ])

finalizeUserTranscript(s, itemId, fallbackId, contentIndex, finalText) ==
  LET key == userKeyFor(Or(itemId, fallbackId), contentIndex)
      has == key \in DOMAIN s.partials
      id == Or(IF has THEN s.partials[key].id ELSE "", Or(itemId, Or(fallbackId, key)))
      text == Or(finalText, IF has THEN s.partials[key].text ELSE "")
      s1 == [ s EXCEPT !.partials = MapDelete(@, key) ]
  IN broadcastTranscript(s1,
       IF text # ""
       THEN [ type |-> "transcript", role |-> "user", id |-> id, final |-> TRUE,
              text |-> text, append |-> FALSE ]
       ELSE [ type |-> "transcript", role |-> "user", id |-> id, final |-> TRUE ])

\* What the transcription service may answer: an HTTP response, ok or not, with
\* the text field of its JSON body, or no response at all (fetch rejects).
NoResponse == [ kind |-> "none" ]
NetworkError == [ kind |-> "rejected" ]
HttpResponse(ok, text) == [ kind |-> "response", ok |-> ok, text |-> text ]

\* transcribePostCallAudio from the resolution of its fetch on; "" stands for
\* null and for "".
transcribePostCallAudioAfterFetch(response) ==
  IF response.kind = "rejected" THEN ""
  ELSE IF ~response.ok THEN ""
  ELSE IF IsString(response.text) THEN Trim(response.text.str) ELSE ""

\* AfterTranscription without the finally clause's call_finished.
AfterTranscriptionNoFinally(s, transcriptText) ==
  LET s1 == [ s EXCEPT !.chunks = << >>, !.fetchPending = FALSE ]
  IN IF transcriptText # ""
     THEN broadcastTranscriptStatus(
            broadcastTranscript(s1,
              [ type |-> "transcript", role |-> "user", id |-> "post-call-user",
                text |-> transcriptText, append |-> FALSE, final |-> TRUE ]),
            "post_call_transcript_ready")
     ELSE broadcastTranscriptStatus(s1, "post_call_transcription_failed")

\* AfterTranscription leaving in the buffer what arrived during the request.
AfterTranscriptionKeepingLateAudio(s, transcriptText) ==
  LET s1 == [ s EXCEPT !.fetchPending = FALSE ]
      s2 == IF transcriptText # ""
            THEN broadcastTranscriptStatus(
                   broadcastTranscript(s1,
                     [ type |-> "transcript", role |-> "user", id |-> "post-call-user",
                       text |-> transcriptText, append |-> FALSE, final |-> TRUE ]),
                   "post_call_transcript_ready")
            ELSE broadcastTranscriptStatus(s1, "post_call_transcription_failed")
  IN broadcastTranscriptStatus(s2, "call_finished")

\* What follows `await transcribePostCallAudio(...)` in safeClose's async block,
\* with the finally clause; transcriptText = "" stands for null and for "".
AfterTranscription(s, transcriptText) ==
  LET s1 == [ s EXCEPT !.chunks = << >>, !.fetchPending = FALSE ]
      s2 == IF transcriptText # ""
            THEN broadcastTranscriptStatus(
                   broadcastTranscript(s1,
                     [ type |-> "transcript", role |-> "user", id |-> "post-call-user",
                       text |-> transcriptText, append |-> FALSE, final |-> TRUE ]),
                   "post_call_transcript_ready")
            ELSE broadcastTranscriptStatus(s1, "post_call_transcription_failed")
  IN broadcastTranscriptStatus(s2, "call_finished")

\* transcribePostCallAudio up to its fetch: without an API key it returns null
\* at once, otherwise the WAV container is built and posted.
PostCallPipeline(s) ==
  IF Len(s.chunks) > 0
  THEN LET s1 == broadcastTranscriptStatus(s, "post_call_processing")
       IN IF ~apiKey
          THEN AfterTranscription(s1, "")
          ELSE [ s1 EXCEPT !.submitted = Append(@, createWavFromPcmChunks(s1.chunks)),
                           !.fetchPending = TRUE ]
  ELSE broadcastTranscriptStatus(
         broadcastTranscriptStatus(s, "post_call_transcription_failed"),
         "call_finished")

CloseAndClear(s) ==
  LET s1 == [ s EXCEPT !.twilioWs = WsClose(@),
                       !.oa = IF s.openaiWs = 0 THEN @
                              ELSE [ @ EXCEPT ![s.openaiWs] = WsClose(@) ],
                       !.partials = << >>,
                       !.callActive = FALSE,
                       !.tornDown = TRUE ]
  IN s1

\* safeClose without the postCallTranscriptionStarted guard.
safeCloseUnguarded(s) ==
  PostCallPipeline([ CloseAndClear(s) EXCEPT !.started = TRUE ])

\* safeClose with a later trigger abandoning the transcription in flight.
safeCloseCancelling(s) ==
  LET s1 == CloseAndClear(s)
  IN IF ~s1.started
     THEN PostCallPipeline([ s1 EXCEPT !.started = TRUE ])
     ELSE [ s1 EXCEPT !.fetchPending = FALSE ]

safeClose(s) ==
  LET s1 == CloseAndClear(s)
  IN IF ~s1.started
     THEN PostCallPipeline([ s1 EXCEPT !.started = TRUE ])
     ELSE s1

\* The latch taking the identifier of every frame that carries one.
LatchStreamSidOverwriting(s, sid) ==
  IF sid # "" THEN [ s EXCEPT !.streamSid = sid ] ELSE s

LatchStreamSid(s, sid) ==
  IF sid # "" /\ s.streamSid = "" THEN [ s EXCEPT !.streamSid = sid ] ELSE s

----------------------------------------------------------------------------
(* Telephony-side handlers: twilioWs.on("message" / "close" / "error") *)

\* The `start` branch up to `await connectOpenAI(...)`: a new socket is created.
NewSocket(s) == CHOOSE c \in ConnIds : s.oa[c] = "NONE" /\ \A d \in ConnIds : d < c => s.oa[d] # "NONE"

OnStart(s, sid) ==
  LET s1 == LatchStreamSid(s, sid)
  IN [ s1 EXCEPT !.oa[NewSocket(s1)] = "CONNECTING" ]

\* OnOpenAIConnected asking for the greeting before it configures the session.
OnOpenAIConnectedGreetingFirst(s, c) ==
  LET s1 == [ s EXCEPT !.oa[c] = "OPEN",
                       !.aiSent[c] = << [ type |-> "response.create" ],
                                        [ type |-> "session.update" ] >>,
                       !.openaiWs = c,
                       !.callActive = TRUE ]
  IN broadcastTranscriptStatus(s1, "call_started")

\* The handshake of socket c completed: connectOpenAI returns and the `start`
\* branch resumes (openaiWs assigned, callActive set, handlers attached).
OnOpenAIConnected(s, c) ==
  LET s1 == [ s EXCEPT !.oa[c] = "OPEN",
                       !.aiSent[c] = << [ type |-> "session.update" ],
                                        [ type |-> "response.create" ] >>,
                       !.openaiWs = c,
                       !.callActive = TRUE ]
  IN broadcastTranscriptStatus(s1, "call_started")

\* The handshake of socket c failed: the catch clause of the `start` branch.
OnOpenAIConnectFailed(s, c) ==
  safeClose([ s EXCEPT !.oa[c] = "CLOSED" ])

\* OnMedia forwarding the caller track only.
OnMediaInboundOnly(s, sid, payload, track) ==
  LET s1 == LatchStreamSid(s, sid)
      inbound == Or(track, "inbound") = "inbound"
      s2 == IF inbound
            THEN LET pcmChunk == decodeMuLawBase64ToPcm16(payload)
                 IN IF pcmChunk # NoBuffer
                    THEN [ s1 EXCEPT !.chunks = Append(@, pcmChunk) ]
                    ELSE s1
            ELSE s1
  IN IF payload = "" \/ ~inbound THEN s1
     ELSE OpenAISend(s2, [ type |-> "input_audio_buffer.append", audio |-> payload ])

\* OnMedia buffering the frames of every track.
OnMediaBufferingAllTracks(s, sid, payload, track) ==
  LET s1 == LatchStreamSid(s, sid)
      s2 == LET pcmChunk == decodeMuLawBase64ToPcm16(payload)
            IN IF pcmChunk # NoBuffer
               THEN [ s1 EXCEPT !.chunks = Append(@, pcmChunk) ]
               ELSE s1
  IN IF payload = "" THEN s1
     ELSE OpenAISend(s2, [ type |-> "input_audio_buffer.append", audio |-> payload ])

OnMedia(s, sid, payload, track) ==
  LET s1 == LatchStreamSid(s, sid)
      s2 == IF Or(track, "inbound") = "inbound"
            THEN LET pcmChunk == decodeMuLawBase64ToPcm16(payload)
                 IN IF pcmChunk # NoBuffer
                    THEN [ s1 EXCEPT !.chunks = Append(@, pcmChunk) ]
                    ELSE s1
            ELSE s1
  IN IF payload = "" THEN s1
     ELSE OpenAISend(s2, [ type |-> "input_audio_buffer.append", audio |-> payload ])

OnStop(s, sid) == safeClose(LatchStreamSid(s, sid))

OnTwilioClosed(s) == safeClose([ s EXCEPT !.twilioWs = "CLOSED" ])

OnTwilioError(s) == safeClose([ s EXCEPT !.twilioWs = "CLOSING" ])

\* A frame JSON.parse rejects, treated as fatal.
OnUnparsableFatal(s) == safeClose(s)

\* `try { ... JSON.parse(...) } catch { return; }` of either "message" handler.
OnUnparsable(s) == s

\* twilioWs.on("message") for the frames that do not await: data.json is
\* whether JSON.parse accepts the frame.
OnTwilioMessage(s, data) ==
  IF ~data.json THEN OnUnparsable(s)
  ELSE CASE data.event = "media" -> OnMedia(s, data.streamSid, data.payload, data.track)
         [] data.event = "stop" -> OnStop(s, data.streamSid)
         [] OTHER -> LatchStreamSid(s, data.streamSid)

----------------------------------------------------------------------------
(* AI-side handlers: openaiWs.on("message" / "close" / "error") *)

\* msg.response?.id || msg.response_id || msg.id
ResponseIdOf(msg) == Or(msg.response_id, msg.id)

AgentEvent(msg) ==
  IF ResponseIdOf(msg) = ""
  THEN [ type |-> "transcript", role |-> "agent" ]
  ELSE [ type |-> "transcript", role |-> "agent", id |-> ResponseIdOf(msg) ]

\* The `error` branch closing the bridge whatever the code.
OnOpenAIErrorEventAlwaysFatal(s, msg) == safeClose(s)

\* The `error` branch: msg.code stands for msg?.error?.code || msg?.code.
OnOpenAIErrorEvent(s, msg) ==
  IF msg.code = "response_cancel_not_active" THEN s ELSE safeClose(s)

OnOpenAIMessage(s, msg) ==
  CASE msg.type = "response.output_audio.delta" /\ msg.delta # "" /\ s.streamSid # "" ->
         TwilioSend(s, [ event |-> "media", streamSid |-> s.streamSid,
                         payload |-> msg.delta ])
    [] msg.type = "response.output_audio.done" /\ s.streamSid # "" ->
         TwilioSend(s, [ event |-> "mark", streamSid |-> s.streamSid,
                         name |-> "response_done" ])
    [] msg.type = "response.output_text.delta" /\ msg.delta # "" ->
         broadcastTranscript(s,
           AgentEvent(msg) @@ [ text |-> msg.delta, append |-> TRUE ])
    [] msg.type = "response.output_text.done" ->
         broadcastTranscript(s, AgentEvent(msg) @@ [ final |-> TRUE ])
    [] msg.type = "conversation.item.input_audio_transcription.delta" ->
         pushUserTranscriptDelta(s, msg.item_id, ResponseIdOf(msg), msg.content_index,
           Or(textFrom(JsString(msg.delta)), Or(textFrom(JsString(msg.transcript)), textFrom(JsString(msg.text)))))
    [] msg.type = "conversation.item.input_audio_transcription.completed" ->
         finalizeUserTranscript(s, msg.item_id, ResponseIdOf(msg), msg.content_index,
           Or(textFrom(JsString(msg.transcript)), Or(textFrom(JsString(msg.text)), textFrom(JsString(msg.delta)))))
    [] /\ msg.type \in { "response.input_audio_transcription.delta",
                         "input_audio_buffer.transcription.delta" }
       /\ (msg.delta # "" \/ msg.transcript # "") ->
         pushUserTranscriptDelta(s, msg.item_id,
           Or(msg.response_id, Or(msg.item_id, msg.id)), msg.content_index,
           Or(textFrom(JsString(msg.delta)), Or(textFrom(JsString(msg.transcript)), textFrom(JsString(msg.text)))))
    [] msg.type \in { "response.input_audio_transcription.completed",
                      "input_audio_buffer.transcription.completed" } ->
         finalizeUserTranscript(s, msg.item_id,
           Or(msg.response_id, Or(msg.item_id, msg.id)), msg.content_index,
           Or(msg.transcription_text,
              Or(textFrom(JsString(msg.transcript)), Or(textFrom(JsString(msg.text)), textFrom(JsString(msg.delta))))))
    [] msg.type = "error" -> OnOpenAIErrorEvent(s, msg)
    [] OTHER -> s

\* openaiWs.on("message") from the raw frame on.
OnOpenAIRaw(s, raw) ==
  IF ~raw.json THEN OnUnparsable(s) ELSE OnOpenAIMessage(s, raw.msg)

OnOpenAIClosed(s, c) == safeClose([ s EXCEPT !.oa[c] = "CLOSED" ])

OnOpenAIError(s, c) == safeClose([ s EXCEPT !.oa[c] = "CLOSING" ])

----------------------------------------------------------------------------
(* Inputs the environment delivers *)

Sids == { "MZ1" }
Payloads == { "", "=", "/w==" }
Tracks == { "inbound", "outbound" }

\* A parsed AI frame; "" and NoIndex stand for an absent field.
Msg(type, item, index, delta, transcript, code) ==
  [ type |-> type, item_id |-> item, content_index |-> index, delta |-> delta,
    transcript |-> transcript, text |-> "", transcription_text |-> "",
    response_id |-> "", id |-> "", code |-> code ]

DeltaMsg(item, index, delta) ==
  Msg("conversation.item.input_audio_transcription.delta", item, index, delta, "", "")
CompletedMsg(item, index, transcript) ==
  Msg("conversation.item.input_audio_transcription.completed", item, index, "", transcript, "")
ErrorMsg(code) == Msg("error", "", NoIndex, "", "", code)

SessionMsgs ==
  { DeltaMsg("i1", 0, "a"), CompletedMsg("i1", 0, ""),
    ErrorMsg("response_cancel_not_active"), ErrorMsg("") }

AggMsgs ==
  { DeltaMsg(i, 0, d) : i \in { "i1", "i2" }, d \in { "", "a", "b" } }
  \cup { CompletedMsg(i, 0, f) : i \in { "i1", "i2" }, f \in { "", "F" } }

\* A socket whose "message", "close" and "error" handlers are attached and live.
Attached(c) == oa[c] \in { "OPEN", "CLOSING" }

----------------------------------------------------------------------------
(* Actions *)

Step(op, s, cost) ==
  /\ budget >= cost
  /\ Apply(s)
  /\ lastOp' = op
  /\ budget' = budget - cost
  /\ UNCHANGED << apiKey, promptVars, codecVars, transcriptClients, observerState, peer >>

TwilioStart ==
  /\ twilioWs # "CLOSED"
  /\ \E c \in ConnIds : oa[c] = "NONE"
  /\ \E sid \in Sids :
       /\ Step("start", OnStart(St, sid), 1)
       /\ UNCHANGED << aiIn, twilioIn >>

OpenAIConnected ==
  \E c \in ConnIds :
    /\ oa[c] = "CONNECTING"
    /\ Step("openai_open", OnOpenAIConnected(St, c), 0)
    /\ UNCHANGED << aiIn, twilioIn >>

OpenAIConnectFailed ==
  \E c \in ConnIds :
    /\ oa[c] = "CONNECTING"
    /\ Step("openai_connect_error", OnOpenAIConnectFailed(St, c), 0)
    /\ UNCHANGED << aiIn, twilioIn >>

TwilioMedia ==
  /\ twilioWs # "CLOSED"
  /\ \E sid \in Sids, payload \in Payloads, track \in Tracks :
       /\ Step("media", OnMedia(St, sid, payload, track), 1)
       /\ UNCHANGED << aiIn, twilioIn >>

TwilioStop ==
  /\ twilioWs # "CLOSED"
  /\ \E sid \in Sids :
       /\ Step("twilio_stop", OnStop(St, sid), 1)
       /\ UNCHANGED << aiIn, twilioIn >>

TwilioClosed ==
  /\ twilioWs # "CLOSED"
  /\ Step("twilio_closed", OnTwilioClosed(St), 0)
  /\ UNCHANGED << aiIn, twilioIn >>

TwilioError ==
  /\ twilioWs # "CLOSED"
  /\ Step("twilio_ws_error", OnTwilioError(St), 1)
  /\ UNCHANGED << aiIn, twilioIn >>

\* The reason safeClose is given, or "openai_message" when the frame closes nothing.
OpOfMessage(msg) ==
  IF msg.type = "error" /\ msg.code # "response_cancel_not_active"
  THEN "openai_error" ELSE "openai_message"

OpenAIMessage ==
  /\ \E c \in ConnIds, msg \in SessionMsgs :
       /\ Attached(c)
       /\ Step(OpOfMessage(msg), OnOpenAIMessage(St, msg), 1)
       /\ aiIn' = Append(aiIn, msg)
       /\ UNCHANGED twilioIn

OpenAIClosed ==
  \E c \in ConnIds :
    /\ Attached(c)
    /\ Step("openai_closed", OnOpenAIClosed(St, c), 0)
    /\ UNCHANGED << aiIn, twilioIn >>

OpenAIError ==
  /\ \E c \in ConnIds :
       /\ Attached(c)
       /\ Step("openai_ws_error", OnOpenAIError(St, c), 1)
       /\ UNCHANGED << aiIn, twilioIn >>

\* The transcription request resolves: a text ("" when the service returned
\* none), or null (non-success response or network error), both falsy as "".
TranscriptionResolved ==
  /\ fetchPending
  /\ \E transcriptText \in { "", "hello" } :
       /\ Step("transcription_resolved", AfterTranscription(St, transcriptText), 0)
       /\ UNCHANGED << aiIn, twilioIn >>

\* The closure variables of a session as twilioWss.on("connection") declares them.
FreshSession ==
  [ twilioWs |-> "OPEN", oa |-> [ c \in ConnIds |-> "NONE" ], openaiWs |-> 0,
    streamSid |-> "", callActive |-> FALSE, partials |-> << >>, chunks |-> << >>,
    started |-> FALSE, fetchPending |-> FALSE, submitted |-> << >>, published |-> << >>,
    aiSent |-> [ c \in ConnIds |-> << >> ], twilioSent |-> << >>, tornDown |-> FALSE,
    clients |-> { }, obs |-> [ o \in Observers |-> "NONE" ],
    received |-> [ o \in Observers |-> << >> ], failing |-> { } ]

InitSession ==
  /\ twilioWs = "OPEN"
  /\ oa = [ c \in ConnIds |-> "NONE" ]
  /\ openaiWs = 0
  /\ streamSid = ""
  /\ callActive = FALSE
  /\ userTranscriptionPartials = << >>
  /\ inboundAudioPcmChunks = << >>
  /\ postCallTranscriptionStarted = FALSE
  /\ fetchPending = FALSE
  /\ submitted = << >>
  /\ published = << >>
  /\ aiSent = [ c \in ConnIds |-> << >> ]
  /\ twilioSent = << >>
  /\ transcriptClients = { }
  /\ observerState = [ o \in Observers |-> "NONE" ]
  /\ received = [ o \in Observers |-> << >> ]
  /\ sendFailures = { }
  /\ aiIn = << >>
  /\ twilioIn = << >>
  /\ prompts = << >>
  /\ now = 0
  /\ issued = << >>
  /\ lookups = << >>
  /\ startLocals = [ c \in ConnIds |-> NoLocals ]
  /\ pcmSample = 0
  /\ wav = NoBuffer
  /\ textValue = JsUndefined
  /\ serviceResponse = NoResponse
  /\ extracted = ""
  /\ configured = NoBuffer
  /\ peer = FreshSession
  /\ lastOp = "connection"
  /\ tornDown = FALSE

Init ==
  /\ InitSession
  /\ muLawByte = 255
  /\ pcmChunks = << >>
  /\ processEnv = UnsetEnv
  /\ apiKey \in BOOLEAN
  /\ budget = MaxEvents

Next ==
  \/ TwilioStart
  \/ OpenAIConnected
  \/ OpenAIConnectFailed
  \/ TwilioMedia
  \/ TwilioStop
  \/ TwilioClosed
  \/ TwilioError
  \/ OpenAIMessage
  \/ OpenAIClosed
  \/ OpenAIError
  \/ TranscriptionResolved

Spec == Init /\ [][Next]_vars

----------------------------------------------------------------------------
(* The aggregator on its own: one started session and transcription events *)

AggStart ==
  /\ \A c \in ConnIds : oa[c] = "NONE"
  /\ Step("start", OnStart(St, "MZ1"), 0)
  /\ UNCHANGED << aiIn, twilioIn >>

AggMessage ==
  \E c \in ConnIds, msg \in AggMsgs :
    /\ Attached(c)
    /\ Step("openai_message", OnOpenAIMessage(St, msg), 1)
    /\ aiIn' = Append(aiIn, msg)
    /\ UNCHANGED twilioIn

InitAgg ==
  /\ InitSession
  /\ muLawByte = 255
  /\ pcmChunks = << >>
  /\ processEnv = UnsetEnv
  /\ apiKey = TRUE
  /\ budget = MaxAggEvents

NextAgg ==
  \/ AggStart
  \/ OpenAIConnected
  \/ AggMessage

SpecAgg == InitAgg /\ [][NextAgg]_vars

\* The session again, with fewer frames, for the properties of what eventually
\* happens: the transcription request is an HTTP request that resolves or fails.
InitLive ==
  /\ InitSession
  /\ muLawByte = 255
  /\ pcmChunks = << >>
  /\ processEnv = UnsetEnv
  /\ apiKey \in BOOLEAN
  /\ budget = MaxLiveEvents

FairSpec == InitLive /\ [][Next]_vars /\ WF_vars(TranscriptionResolved)

----------------------------------------------------------------------------
(* The relay on its own: audio in both directions, frames JSON.parse        *)
(* rejects, and the telephony `stop`, with the frames of both sockets       *)
(* recorded as they arrive.                                                  *)

TwilioFrame(event, payload, track) ==
  [ json |-> TRUE, event |-> event, streamSid |-> "MZ1", payload |-> payload,
    track |-> track ]

\* What JSON.parse rejects carries no field the handler could read.
UnparsableTwilioFrame ==
  [ json |-> FALSE, event |-> "", streamSid |-> "", payload |-> "", track |-> "" ]

RelayFrames ==
  { TwilioFrame("media", "", "inbound"), TwilioFrame("media", "/w==", "inbound"),
    TwilioFrame("media", "AA==", "outbound"), TwilioFrame("media", "/w==", "outbound"),
    TwilioFrame("stop", "", ""), UnparsableTwilioFrame }

AudioDelta(delta) == Msg("response.output_audio.delta", "", NoIndex, delta, "", "")
AudioDone == Msg("response.output_audio.done", "", NoIndex, "", "", "")

RelayAiFrames ==
  { [ json |-> TRUE, msg |-> m ] : m \in { AudioDelta(""), AudioDelta("eA=="), AudioDone } }
  \cup { [ json |-> FALSE, msg |-> AudioDone ] }

OpOfTwilioFrame(data) ==
  IF ~data.json THEN "twilio_unparsable"
  ELSE IF data.event = "stop" THEN "twilio_stop" ELSE data.event

RelayStart ==
  /\ twilioWs # "CLOSED"
  /\ \E c \in ConnIds : oa[c] = "NONE"
  /\ Step("start", OnStart(St, "MZ1"), 1)
  /\ twilioIn' = Append(twilioIn, TwilioFrame("start", "", ""))
  /\ UNCHANGED aiIn

RelayTwilioFrame ==
  /\ twilioWs # "CLOSED"
  /\ \E data \in RelayFrames :
       /\ Step(OpOfTwilioFrame(data), OnTwilioMessage(St, data), 1)
       /\ twilioIn' = Append(twilioIn, data)
       /\ UNCHANGED aiIn

RelayAiFrame ==
  \E c \in ConnIds, raw \in RelayAiFrames :
    /\ Attached(c)
    /\ Step(IF raw.json THEN "openai_message" ELSE "openai_unparsable",
            OnOpenAIRaw(St, raw), 1)
    /\ aiIn' = IF raw.json THEN Append(aiIn, raw.msg) ELSE aiIn
    /\ UNCHANGED twilioIn

InitRelay ==
  /\ InitSession
  /\ muLawByte = 255
  /\ pcmChunks = << >>
  /\ processEnv = UnsetEnv
  /\ apiKey = TRUE
  /\ budget = MaxRelayEvents

NextRelay ==
  \/ RelayStart
  \/ OpenAIConnected
  \/ RelayTwilioFrame
  \/ RelayAiFrame
  \/ TranscriptionResolved

SpecRelay == InitRelay /\ [][NextRelay]_vars

----------------------------------------------------------------------------
(* The PromptStore and the `start` branch that resolves a prompt            *)
(* (server.js): records are stored by POST /api/prompts, looked up by       *)
(* /api/call, /twiml and `start`, and the clock advances.                   *)

\* What POST /api/prompts accepts: instructions, a voice, a model of MODEL_IDS.
PromptBodies ==
  { [ instructions |-> "Be terse", voice |-> "alloy", model |-> DEFAULT_MODEL ],
    [ instructions |-> "Be terse", voice |-> "echo",
      model |-> "gpt-realtime-mini-2025-10-06" ] }

\* data.start.customParameters; "" stands for an absent parameter.
StartParams ==
  { [ promptId |-> "", voice |-> "", model |-> "" ],
    [ promptId |-> "p1", voice |-> "verse", model |-> "gpt-realtime-mini-2025-10-06" ],
    [ promptId |-> "zz", voice |-> "verse", model |-> "m0" ] }

ClockSteps == { 300000, 600001 }

\* The session closure of server.js holds openaiWs and streamSid only.
SessionRest ==
  << twilioWs, callActive, userTranscriptionPartials, inboundAudioPcmChunks,
     postCallTranscriptionStarted, fetchPending, apiKey, submitted, published,
     twilioSent, aiIn, twilioIn, tornDown, codecVars, observerVars, peer >>

PromptEvent(op) ==
  /\ budget >= 1
  /\ budget' = budget - 1
  /\ lastOp' = op
  /\ UNCHANGED SessionRest

ApiPrompts ==
  /\ Cardinality(DOMAIN issued) < MaxPrompts
  /\ \E body \in PromptBodies :
       LET id == NewPromptId(Cardinality(DOMAIN issued) + 1)
           ps == putPrompt(prompts, now, id, body.instructions, body.voice, body.model)
       IN /\ prompts' = ps
          /\ issued' = MapPut(issued, id, ps[id])
  /\ PromptEvent("api_prompts")
  /\ UNCHANGED << now, lookups, startLocals, oa, openaiWs, streamSid, aiSent >>

ClockAdvances ==
  /\ \E d \in ClockSteps : now' = now + d
  /\ PromptEvent("clock")
  /\ UNCHANGED << prompts, issued, lookups, startLocals, oa, openaiWs, streamSid, aiSent >>

\* getPrompt(promptId) of /api/call and /twiml.
Lookup ==
  /\ \E id \in DOMAIN issued :
       LET r == getPrompt(prompts, now, id)
       IN /\ prompts' = r.prompts
          /\ lookups' = Append(lookups, [ id |-> id, at |-> now, p |-> r.p ])
  /\ PromptEvent("lookup")
  /\ UNCHANGED << now, issued, startLocals, oa, openaiWs, streamSid, aiSent >>

\* The `start` branch of server.js up to `await connectOpenAI(...)`.
PromptStart ==
  /\ \E c \in ConnIds : oa[c] = "NONE"
  /\ \E params \in StartParams :
       \* an identifier of a record is known to a caller only once it is issued
       /\ params.promptId \in DOMAIN issued \cup { "", "zz" }
       /\ LET c == NewSocket(St)
              r == IF params.promptId # "" THEN getPrompt(prompts, now, params.promptId)
                   ELSE [ p |-> NoPrompt, prompts |-> prompts ]
          IN /\ prompts' = r.prompts
             /\ lookups' = IF params.promptId # ""
                           THEN Append(lookups,
                                  [ id |-> params.promptId, at |-> now, p |-> r.p ])
                           ELSE lookups
             /\ startLocals' = [ startLocals EXCEPT ![c] = StartLocals(params, r.p) ]
             /\ oa' = [ oa EXCEPT ![c] = "CONNECTING" ]
  /\ streamSid' = Or(streamSid, "MZ1")
  /\ PromptEvent("start")
  /\ UNCHANGED << now, issued, openaiWs, aiSent >>

\* connectOpenAI returns: the frames it sent, and openaiWs assigned.
PromptConnected ==
  /\ \E c \in ConnIds :
       /\ oa[c] = "CONNECTING"
       /\ startLocals[c].started
       /\ oa' = [ oa EXCEPT ![c] = "OPEN" ]
       /\ aiSent' = [ aiSent EXCEPT ![c] =
                        << sessionUpdate(startLocals[c].instructions, startLocals[c].voice,
                                         startLocals[c].model),
                           [ type |-> "response.create" ] >> ]
       /\ openaiWs' = c
  /\ lastOp' = "openai_open"
  /\ UNCHANGED << SessionRest, promptVars, streamSid, budget >>

InitPrompt ==
  /\ InitSession
  /\ muLawByte = 255
  /\ pcmChunks = << >>
  /\ processEnv = UnsetEnv
  /\ apiKey = TRUE
  /\ budget = MaxPromptEvents

NextPrompt ==
  \/ ApiPrompts
  \/ ClockAdvances
  \/ Lookup
  \/ PromptStart
  \/ PromptConnected

SpecPrompt == InitPrompt /\ [][NextPrompt]_vars

----------------------------------------------------------------------------
(* AudioCodec on its own: decodeMuLawSample applied to one byte *)

Bytes == 0..255

DecodeSample ==
  /\ lastOp = "connection"
  /\ pcmSample' = decodeMuLawSample(muLawByte)
  /\ lastOp' = "decodeMuLawSample"
  /\ UNCHANGED << twilioWs, oa, openaiWs, streamSid, callActive, userTranscriptionPartials,
                  inboundAudioPcmChunks, postCallTranscriptionStarted, fetchPending, apiKey,
                  submitted, published, aiSent, twilioSent, aiIn, twilioIn, promptVars,
                  observerVars, peer,
                  muLawByte, pcmChunks, wav, configVars, textVars, serviceResponse, tornDown,
                  budget >>

InitCodec ==
  /\ InitSession
  /\ muLawByte \in Bytes
  /\ pcmChunks = << >>
  /\ processEnv = UnsetEnv
  /\ apiKey = TRUE
  /\ budget = 0

NextCodec == DecodeSample

SpecCodec == InitCodec /\ [][NextCodec]_vars

----------------------------------------------------------------------------
(* WavContainerBuilder on its own: createWavFromPcmChunks applied to chunks *)

\* PCM16 buffers as decodeMuLawBase64ToPcm16 returns them, the empty one included.
PcmChunks == { << >>, PcmOf(<< 255 >>), PcmOf(<< 0 >>), PcmOf(<< 128, 255 >>) }

RECURSIVE SeqsUpTo(_, _)
SeqsUpTo(S, n) ==
  IF n = 0 THEN { << >> }
  ELSE LET shorter == SeqsUpTo(S, n - 1)
       IN shorter \cup { Append(q, x) : q \in { r \in shorter : Len(r) = n - 1 }, x \in S }

BuildWav ==
  /\ lastOp = "connection"
  /\ wav' = createWavFromPcmChunks(pcmChunks)
  /\ lastOp' = "createWavFromPcmChunks"
  /\ UNCHANGED << twilioWs, oa, openaiWs, streamSid, callActive, userTranscriptionPartials,
                  inboundAudioPcmChunks, postCallTranscriptionStarted, fetchPending, apiKey,
                  submitted, published, aiSent, twilioSent, aiIn, twilioIn, promptVars,
                  observerVars, peer,
                  muLawByte, pcmSample, pcmChunks, configVars, textVars, serviceResponse,
                  tornDown, budget >>

InitWav ==
  /\ InitSession
  /\ muLawByte = 255
  /\ pcmChunks \in SeqsUpTo(PcmChunks, MaxChunks)
  /\ processEnv = UnsetEnv
  /\ apiKey = TRUE
  /\ budget = 0

NextWav == BuildWav

SpecWav == InitWav /\ [][NextWav]_vars

----------------------------------------------------------------------------
(* The observer registry: observers connect, close and fail while one       *)
(* session publishes.                                                        *)

ObserverMsgs == { DeltaMsg("i1", 0, "a"), ErrorMsg("") }

\* The session as a handler finds it when the sends to `failing` throw.
StFailing(failing) == [ St EXCEPT !.failing = failing ]

\* The sends that throw during one handler: none, or those to one of the
\* observers the loop sends to.
SendsThrowing ==
  { { } } \cup { { o } : o \in { c \in transcriptClients : observerState[c] = "OPEN" } }

\* transcriptWss.on("connection"): registered, then greeted inside try/catch.
ObserverConnects ==
  \E o \in Observers, thrown \in BOOLEAN :
    /\ observerState[o] = "NONE"
    /\ observerState' = [ observerState EXCEPT ![o] = "OPEN" ]
    /\ transcriptClients' = transcriptClients \cup { o }
    /\ received' = IF thrown THEN received
                   ELSE [ received EXCEPT ![o] = Append(@, StatusEvent("connected", "")) ]
    /\ sendFailures' = IF thrown THEN { o } ELSE { }
    /\ budget >= 1
    /\ budget' = budget - 1
    /\ lastOp' = "observer_connection"
    /\ UNCHANGED << twilioWs, oa, openaiWs, streamSid, callActive, userTranscriptionPartials,
                    inboundAudioPcmChunks, postCallTranscriptionStarted, fetchPending, apiKey,
                    submitted, published, aiSent, twilioSent, aiIn, twilioIn, promptVars,
                    codecVars, peer, tornDown >>

\* The observer socket starts closing: its "close" event has not been emitted yet.
ObserverClosing ==
  \E o \in Observers :
    /\ observerState[o] = "OPEN"
    /\ observerState' = [ observerState EXCEPT ![o] = "CLOSING" ]
    /\ budget >= 1
    /\ budget' = budget - 1
    /\ lastOp' = "observer_closing"
    /\ UNCHANGED << twilioWs, oa, openaiWs, streamSid, callActive, userTranscriptionPartials,
                    inboundAudioPcmChunks, postCallTranscriptionStarted, fetchPending, apiKey,
                    submitted, published, aiSent, twilioSent, aiIn, twilioIn, promptVars,
                    codecVars, peer, tornDown, transcriptClients, received, sendFailures >>

\* client.on("close") and client.on("error"): the observer leaves the registry.
ObserverGone ==
  \E o \in Observers, event \in { "close", "error" } :
    /\ observerState[o] \in { "OPEN", "CLOSING" }
    /\ o \in transcriptClients
    /\ observerState' = [ observerState EXCEPT ![o] = IF event = "close" THEN "CLOSED"
                                                     ELSE "CLOSING" ]
    /\ transcriptClients' = transcriptClients \ { o }
    /\ budget >= 1
    /\ budget' = budget - 1
    /\ lastOp' = "observer_" \o event
    /\ UNCHANGED << twilioWs, oa, openaiWs, streamSid, callActive, userTranscriptionPartials,
                    inboundAudioPcmChunks, postCallTranscriptionStarted, fetchPending, apiKey,
                    submitted, published, aiSent, twilioSent, aiIn, twilioIn, promptVars,
                    codecVars, peer, tornDown, received, sendFailures >>

ObservedConnected ==
  \E c \in ConnIds, failing \in SendsThrowing :
    /\ oa[c] = "CONNECTING"
    /\ Step("openai_open", OnOpenAIConnected(StFailing(failing), c), 0)
    /\ UNCHANGED << aiIn, twilioIn >>

ObservedMessage ==
  \E c \in ConnIds, msg \in ObserverMsgs, failing \in SendsThrowing :
    /\ Attached(c)
    /\ Step(OpOfMessage(msg), OnOpenAIMessage(StFailing(failing), msg), 1)
    /\ aiIn' = Append(aiIn, msg)
    /\ UNCHANGED twilioIn

ObservedStop ==
  \E failing \in SendsThrowing :
    /\ twilioWs # "CLOSED"
    /\ Step("twilio_stop", OnStop(StFailing(failing), "MZ1"), 1)
    /\ UNCHANGED << aiIn, twilioIn >>

InitObservers ==
  /\ InitSession
  /\ muLawByte = 255
  /\ pcmChunks = << >>
  /\ processEnv = UnsetEnv
  /\ apiKey = TRUE
  /\ budget = MaxObserverEvents

NextObservers ==
  \/ AggStart
  \/ ObservedConnected
  \/ ObservedMessage
  \/ ObservedStop
  \/ ObserverConnects
  \/ ObserverClosing
  \/ ObserverGone

SpecObservers == InitObservers /\ [][NextObservers]_vars

----------------------------------------------------------------------------
(* Two sessions of one process: the session of the variables and `peer`     *)

\* What one event makes of the second session.
PeerOutcomes(s) ==
  { OnStart(s, "MZ2") : x \in { c \in ConnIds : s.twilioWs # "CLOSED" /\ s.oa[c] = "NONE"
                                                /\ \A d \in ConnIds : s.oa[d] = "NONE" } }
  \cup { OnOpenAIConnected(s, c) : c \in { d \in ConnIds : s.oa[d] = "CONNECTING" } }
  \cup { OnOpenAIConnectFailed(s, c) : c \in { d \in ConnIds : s.oa[d] = "CONNECTING" } }
  \cup { OnMedia(s, "MZ2", "/w==", "inbound") : x \in { 1 : y \in { s.twilioWs } \ { "CLOSED" } } }
  \cup { OnStop(s, "MZ2") : x \in { 1 : y \in { s.twilioWs } \ { "CLOSED" } } }
  \cup { OnOpenAIMessage(s, ErrorMsg("")) :
           c \in { d \in ConnIds : s.oa[d] \in { "OPEN", "CLOSING" } } }
  \cup { AfterTranscription(s, "") : x \in { 1 : y \in { s.fetchPending } \ { FALSE } } }

PeerEvent ==
  /\ budget >= 1
  /\ \E s \in PeerOutcomes(peer) : peer' = s
  /\ budget' = budget - 1
  /\ lastOp' = "peer_event"
  /\ UNCHANGED << twilioWs, oa, openaiWs, streamSid, callActive, userTranscriptionPartials,
                  inboundAudioPcmChunks, postCallTranscriptionStarted, fetchPending, apiKey,
                  submitted, published, aiSent, twilioSent, aiIn, twilioIn, promptVars,
                  observerVars, codecVars, tornDown >>

\* The process has exited: the system closes every socket it held and the
\* request in flight is abandoned.
Exited(s) ==
  [ s EXCEPT !.twilioWs = "CLOSED",
             !.oa = [ c \in ConnIds |-> IF s.oa[c] = "NONE" THEN "NONE" ELSE "CLOSED" ],
             !.fetchPending = FALSE ]

\* A frame holding the JSON text `null`: JSON.parse returns null, and reading
\* data.event (telephony) or msg.type (AI side) throws a TypeError outside any
\* try block. Nothing catches it (a rejected promise of the async telephony
\* handler, an exception of the AI-side listener) and the process exits.
NullFrame ==
  /\ budget >= 1
  /\ \E side \in { "twilio", "openai" } :
       IF side = "twilio" THEN twilioWs # "CLOSED" ELSE \E c \in ConnIds : Attached(c)
  /\ Apply(Exited(St))
  /\ peer' = Exited(peer)
  /\ budget' = budget - 1
  /\ lastOp' = "process_exit"
  /\ UNCHANGED << apiKey, promptVars, codecVars, transcriptClients, observerState,
                  aiIn, twilioIn >>

InitPair ==
  /\ InitSession
  /\ muLawByte = 255
  /\ pcmChunks = << >>
  /\ processEnv = UnsetEnv
  /\ apiKey = TRUE
  /\ budget = MaxPairEvents

NextPair ==
  \/ TwilioStart
  \/ OpenAIConnected
  \/ OpenAIConnectFailed
  \/ TwilioMedia
  \/ TwilioStop
  \/ OpenAIMessage
  \/ TranscriptionResolved
  \/ PeerEvent
  \/ NullFrame

SpecPair == InitPair /\ [][NextPair]_vars

----------------------------------------------------------------------------
(* connectOpenAI building the session.update frame under an environment *)

EnvModels ==
  { "", "gpt-realtime", "gpt-4o-realtime-preview", "gpt-4o-realtime-preview-2024-12-17",
    "gpt-4o-realtime", "my-gpt-4o-realtime-preview", "gpt-4o-mini-realtime-preview" }

\* Values of OPENAI_TRANSCRIPTION_MODELS, each with the names the operator listed.
EnvAllowLists ==
  { [ csv |-> "", names |-> { } ],
    [ csv |-> " , ", names |-> { } ],
    [ csv |-> "gpt-realtime", names |-> { "gpt-realtime" } ],
    [ csv |-> " gpt-realtime ,gpt-4o-realtime", names |-> { "gpt-realtime", "gpt-4o-realtime" } ],
    [ csv |-> "gpt-4o-realtime-preview-2024-12-17,", names |-> { "gpt-4o-realtime-preview-2024-12-17" } ],
    [ csv |-> "gpt-4o-mini-realtime-preview, my-gpt-4o-realtime-preview",
      names |-> { "gpt-4o-mini-realtime-preview", "my-gpt-4o-realtime-preview" } ],
    [ csv |-> "gpt-4o-realtime-preview", names |-> { "gpt-4o-realtime-preview" } ],
    [ csv |-> "gpt-5", names |-> { "gpt-5" } ] }

ConfigureSession ==
  /\ lastOp = "connection"
  /\ configured' = SessionUpdateFrame(processEnv, "BASE_RULES", "")
  /\ lastOp' = "connectOpenAI"
  /\ UNCHANGED << twilioWs, oa, openaiWs, streamSid, callActive, userTranscriptionPartials,
                  inboundAudioPcmChunks, postCallTranscriptionStarted, fetchPending, apiKey,
                  submitted, published, aiSent, twilioSent, aiIn, twilioIn, promptVars,
                  observerVars, peer, muLawByte, pcmSample, pcmChunks, wav, processEnv,
                  textVars, serviceResponse, tornDown, budget >>

InitConfig ==
  /\ InitSession
  /\ muLawByte = 255
  /\ pcmChunks = << >>
  /\ \E m \in EnvModels, l \in EnvAllowLists :
       processEnv = [ OPENAI_MODEL |-> m, OPENAI_TRANSCRIPTION_MODELS |-> l.csv,
                      names |-> l.names ]
  /\ apiKey = TRUE
  /\ budget = 0

NextConfig == ConfigureSession

SpecConfig == InitConfig /\ [][NextConfig]_vars

----------------------------------------------------------------------------
(* The aggregator again, with every event name the message handler knows: the *)
(* three caller-transcription variants and the agent's text events.          *)

\* The event names of one kind ("delta" or "completed").
VariantTypes(kind) ==
  { "conversation.item.input_audio_transcription." \o kind,
    "response.input_audio_transcription." \o kind,
    "input_audio_buffer.transcription." \o kind }

\* The field of the frame that carries the text payload, if any.
Carriers == { "delta", "transcript", "text", "none" }

Carrying(type, index, carrier, payload) ==
  LET m == Msg(type, "i1", index, "", "", "")
  IN IF carrier = "none" THEN m ELSE [ m EXCEPT ![carrier] = payload ]

AgentDelta(delta) ==
  [ Msg("response.output_text.delta", "", NoIndex, delta, "", "") EXCEPT !.response_id = "r1" ]
AgentDone(text) ==
  [ Msg("response.output_text.done", "", NoIndex, "", "", "") EXCEPT
      !.response_id = "r1", !.text = text ]

VariantMsgs ==
  { Carrying(type, index, carrier, "a") :
      type \in VariantTypes("delta"), index \in { 0, 1 }, carrier \in Carriers }
  \cup { Carrying(type, index, carrier, "F") :
      type \in VariantTypes("completed"), index \in { 0, 1 }, carrier \in Carriers }
  \cup { AgentDelta("a"), AgentDone(""), AgentDone("F") }

VariantMessage ==
  \E c \in ConnIds, msg \in VariantMsgs :
    /\ Attached(c)
    /\ Step("openai_message", OnOpenAIMessage(St, msg), 1)
    /\ aiIn' = Append(aiIn, msg)
    /\ UNCHANGED twilioIn

InitVariants ==
  /\ InitSession
  /\ muLawByte = 255
  /\ pcmChunks = << >>
  /\ processEnv = UnsetEnv
  /\ apiKey = TRUE
  /\ budget = MaxVariantEvents

NextVariants ==
  \/ AggStart
  \/ OpenAIConnected
  \/ VariantMessage

SpecVariants == InitVariants /\ [][NextVariants]_vars

----------------------------------------------------------------------------
(* The post-call pipeline with the answers of the transcription service told *)
(* apart.                                                                    *)

ServiceResponses ==
  { HttpResponse(TRUE, JsString("hello")), HttpResponse(TRUE, JsString(" hello ")),
    HttpResponse(TRUE, JsString("")), HttpResponse(TRUE, JsString(" ")),
    HttpResponse(TRUE, JsUndefined), HttpResponse(FALSE, JsUndefined), NetworkError }

ServiceResponds ==
  /\ fetchPending
  /\ \E response \in ServiceResponses :
       /\ Apply(AfterTranscription(St, transcribePostCallAudioAfterFetch(response)))
       /\ serviceResponse' = response
  /\ lastOp' = "transcription_resolved"
  /\ UNCHANGED << apiKey, promptVars, pureVars, transcriptClients, observerState, peer,
                  aiIn, twilioIn, budget >>

InitPostCall ==
  /\ InitSession
  /\ muLawByte = 255
  /\ pcmChunks = << >>
  /\ processEnv = UnsetEnv
  /\ apiKey \in BOOLEAN
  /\ budget = MaxPostCallEvents

NextPostCall ==
  \/ TwilioStart
  \/ OpenAIConnected
  \/ TwilioMedia
  \/ TwilioStop
  \/ ServiceResponds

SpecPostCall == InitPostCall /\ [][NextPostCall]_vars

----------------------------------------------------------------------------
(* The stream identifier: telephony frames with and without an identifier,   *)
(* of this stream or of another, and the AI's audio events.                  *)

LatchSids == { "", "MZ1", "MZ2" }

WithSid(data, sid) == [ data EXCEPT !.streamSid = sid ]

\* `connected` stands for the events the handler has no branch for.
LatchFrames ==
  { WithSid(data, sid) :
      data \in { TwilioFrame("media", "/w==", "inbound"), TwilioFrame("connected", "", "") },
      sid \in LatchSids }

LatchStart ==
  /\ twilioWs # "CLOSED"
  /\ \E c \in ConnIds : oa[c] = "NONE"
  /\ \E sid \in LatchSids :
       /\ Step("start", OnStart(St, sid), 1)
       /\ twilioIn' = Append(twilioIn, WithSid(TwilioFrame("start", "", ""), sid))
  /\ UNCHANGED aiIn

LatchTwilioFrame ==
  /\ twilioWs # "CLOSED"
  /\ \E data \in LatchFrames :
       /\ Step(OpOfTwilioFrame(data), OnTwilioMessage(St, data), 1)
       /\ twilioIn' = Append(twilioIn, data)
       /\ UNCHANGED aiIn

InitLatch ==
  /\ InitSession
  /\ muLawByte = 255
  /\ pcmChunks = << >>
  /\ processEnv = UnsetEnv
  /\ apiKey = TRUE
  /\ budget = MaxLatchEvents

NextLatch ==
  \/ LatchStart
  \/ OpenAIConnected
  \/ LatchTwilioFrame
  \/ RelayAiFrame

SpecLatch == InitLatch /\ [][NextLatch]_vars

----------------------------------------------------------------------------
(* textFrom on its own: applied once to a payload                           *)

TextFields == { "text", "transcript", "delta", "content", "value" }

\* What a field may hold: nothing, the empty string, a string naming the field,
\* or a number.
FieldValues(f) == { JsUndefined, JsString(""), JsString("<" \o f \o ">"), JsNumber(1) }

TextObjects ==
  { JsObject(fields) :
      fields \in { g \in [ TextFields -> UNION { FieldValues(f) : f \in TextFields } ] :
                     \A f \in TextFields : g[f] \in FieldValues(f) } }

TextItems ==
  { JsString("a"), JsString("b"), JsUndefined,
    JsObject([ f \in TextFields |-> IF f = "transcript" THEN JsString("<transcript>")
                                     ELSE JsUndefined ]) }

TextValues ==
  { JsUndefined, JsString(""), JsString("a"), JsNumber(0), JsNumber(1) }
  \cup TextObjects
  \cup { JsArray(items) : items \in SeqsUpTo(TextItems, MaxItems) }

ExtractText ==
  /\ lastOp = "connection"
  /\ \E value \in TextValues :
       /\ textValue' = value
       /\ extracted' = textFrom(value)
  /\ lastOp' = "textFrom"
  /\ UNCHANGED << twilioWs, oa, openaiWs, streamSid, callActive, userTranscriptionPartials,
                  inboundAudioPcmChunks, postCallTranscriptionStarted, fetchPending, apiKey,
                  submitted, published, aiSent, twilioSent, aiIn, twilioIn, promptVars,
                  observerVars, peer, muLawByte, pcmSample, pcmChunks, wav, configVars,
                  serviceResponse, tornDown, budget >>

InitText ==
  /\ InitSession
  /\ muLawByte = 255
  /\ pcmChunks = << >>
  /\ processEnv = UnsetEnv
  /\ apiKey = TRUE
  /\ budget = 0

NextText == ExtractText

SpecText == InitText /\ [][NextText]_vars

----------------------------------------------------------------------------
(* Vocabulary of the properties *)

TeardownOps ==
  { "twilio_stop", "twilio_closed", "twilio_ws_error", "openai_closed",
    "openai_ws_error", "openai_error", "openai_connect_error" }

IsStatus(e, status) == e.type = "status" /\ e.status = status
HasStatusIn(events, status) == \E i \in DOMAIN events : IsStatus(events[i], status)
HasStatus(status) == HasStatusIn(published, status)

IsPostCallTranscript(e) == e.type = "transcript" /\ e.id = "post-call-user"

\* The status events and the post-call transcript events, in publication order.
RECURSIVE PostCallViewOf(_)
PostCallViewOf(events) ==
  IF events = << >> THEN << >>
  ELSE (IF Head(events).type = "status" THEN << Head(events).status >>
        ELSE IF IsPostCallTranscript(Head(events)) THEN << "post_call_transcript" >>
        ELSE << >>) \o PostCallViewOf(Tail(events))
PostCallView == PostCallViewOf(published)

IsPrefix(a, b) == Len(a) <= Len(b) /\ SubSeq(b, 1, Len(a)) = a

\* What safeClose writes besides the two sockets.
SessionCore ==
  << userTranscriptionPartials, callActive, postCallTranscriptionStarted,
     inboundAudioPcmChunks, published, submitted, fetchPending, openaiWs >>

----------------------------------------------------------------------------
(* C1: teardown is idempotent: once safeClose has run, a later teardown      *)
(* trigger (stop, socket close or error, fatal AI error, connect failure)    *)
(* changes no session state and publishes or submits nothing.                *)

C1_LaterTriggerChangesNothing ==
  [][ (tornDown /\ lastOp' \in TeardownOps) => SessionCore' = SessionCore ]_vars

(* C2: in every reachable state at most one AI connection of the session is *)
(* open.                                                                     *)

OpenSockets == { c \in ConnIds : oa[c] = "OPEN" }

C2_AtMostOneLiveAiConnection == Cardinality(OpenSockets) <= 1

(* C3: once call_finished is published, no AI connection is open and stays  *)
(* open: when the telephony socket is closed and no handshake is pending,   *)
(* so that no handler of the session will run unless the AI peer acts, no AI *)
(* connection is open.                                                       *)

C3_NoAiConnectionLeftOpen ==
  ( /\ HasStatus("call_finished")
    /\ twilioWs = "CLOSED"
    /\ \A c \in ConnIds : oa[c] # "CONNECTING" )
  => OpenSockets = { }

(* C4: for a session whose start succeeded and whose teardown found caller  *)
(* audio buffered, the status and post-call transcript events are, in order, *)
(* call_started, post_call_processing, then either (post-call transcript,   *)
(* post_call_transcript_ready) or post_call_transcription_failed, then      *)
(* call_finished.                                                            *)

PostCallReadySequence ==
  << "call_started", "post_call_processing", "post_call_transcript",
     "post_call_transcript_ready", "call_finished" >>
PostCallFailedSequence ==
  << "call_started", "post_call_processing", "post_call_transcription_failed",
     "call_finished" >>

\* call_started was published before the teardown, which found audio buffered.
StartedThenTornDownWithAudio ==
  /\ PostCallView # << >>
  /\ Head(PostCallView) = "call_started"
  /\ HasStatus("post_call_processing")

C4_PostCallEventOrder ==
  StartedThenTornDownWithAudio
  => ( \/ IsPrefix(PostCallView, PostCallReadySequence)
       \/ IsPrefix(PostCallView, PostCallFailedSequence) )

(* C5: when the first teardown of a started session finds no audio sample   *)
(* buffered, that teardown publishes the failure status and call_finished   *)
(* and nothing else: no post_call_processing, no submission to the          *)
(* transcription service, no post-call transcript.                          *)

C5_NoSamplesNothingSubmitted ==
  [][ ( /\ ~tornDown /\ tornDown'
        /\ HasStatus("call_started")
        /\ Concat(inboundAudioPcmChunks) = << >> )
      => ( /\ submitted' = << >>
           /\ ~fetchPending'
           /\ published' = published \o
                << StatusEvent("post_call_transcription_failed", streamSid'),
                   StatusEvent("call_finished", streamSid') >> ) ]_vars

(* C6: the transcription service receives at most one submission per        *)
(* session, whatever the sequence of events and whatever the outcome of the *)
(* first submission.                                                         *)

C6_AtMostOneSubmission == Len(submitted) <= 1

C6_Witness ==
  /\ Len(submitted) = 1
  /\ ~fetchPending
  /\ HasStatus("post_call_transcription_failed")
  /\ Len(inboundAudioPcmChunks) > 0
  /\ lastOp \in TeardownOps

(* C7: whenever teardown is triggered call_finished is eventually published *)
(* (the transcription request resolving), and every call_finished is        *)
(* preceded by a transcription outcome status (ready or failed).            *)

FinishedAfterOutcome ==
  \A i \in DOMAIN published :
    IsStatus(published[i], "call_finished")
    => \E j \in 1..(i - 1) :
         \/ IsStatus(published[j], "post_call_transcript_ready")
         \/ IsStatus(published[j], "post_call_transcription_failed")

C7_FinishedEventually ==
  /\ tornDown ~> HasStatus("call_finished")
  /\ [] FinishedAfterOutcome

C7_Witness ==
  /\ lastOp = "transcription_resolved"
  /\ HasStatus("post_call_processing")
  /\ HasStatus("call_finished")

----------------------------------------------------------------------------
(* The aggregator's inputs and outputs, read from the histories *)

IsDelta(m) == m.type = "conversation.item.input_audio_transcription.delta"
IsCompleted(m) == m.type = "conversation.item.input_audio_transcription.completed"
KeyOf(m) == << m.item_id, m.content_index >>

\* An input for which the aggregator emits an event.
Productive(m) == IsCompleted(m) \/ (IsDelta(m) /\ m.delta # "")

IsUserTranscript(e) == e.type = "transcript" /\ e.role = "user"
UserEvents == SelectSeq(published, IsUserTranscript)

\* The place in UserEvents of the event emitted for the n-th input.
EmitIndex(n) == Cardinality({ m \in 1..n : Productive(aiIn[m]) })

\* The delta fragments of `key` among the first n inputs that follow the last
\* completed event of that key, concatenated in arrival order.
RECURSIVE Fragments(_, _)
Fragments(key, n) ==
  IF n = 0 THEN ""
  ELSE IF KeyOf(aiIn[n]) # key THEN Fragments(key, n - 1)
  ELSE IF IsCompleted(aiIn[n]) THEN ""
  ELSE Fragments(key, n - 1) \o aiIn[n].delta

LastOfKey(n) == \A m \in (n + 1)..Len(aiIn) : KeyOf(aiIn[m]) # KeyOf(aiIn[n])

(* C8: for interleaved delta events of two keys followed by completed events *)
(* without explicit text, every input yields its one event in arrival order, *)
(* the final event of a key carries the concatenation of that key's delta    *)
(* fragments, and the key's entry is gone after its completed event.         *)

C8_FinalTextIsConcatenation ==
  /\ Len(UserEvents) = EmitIndex(Len(aiIn))
  /\ \A n \in DOMAIN aiIn :
       LET m == aiIn[n]
           e == UserEvents[EmitIndex(n)]
           want == Fragments(KeyOf(m), n - 1)
       IN /\ (IsDelta(m) /\ m.delta # "")
             => e = [ type |-> "transcript", role |-> "user", id |-> m.item_id,
                      text |-> m.delta, append |-> TRUE ]
          /\ (IsCompleted(m) /\ m.transcript = "")
             => /\ e.id = m.item_id
                /\ "final" \in DOMAIN e /\ e.final = TRUE
                /\ IF want # ""
                   THEN "text" \in DOMAIN e /\ e.text = want
                   ELSE "text" \notin DOMAIN e
          /\ (IsCompleted(m) /\ LastOfKey(n))
             => userKeyFor(m.item_id, m.content_index)
                  \notin DOMAIN userTranscriptionPartials

C8_Witness ==
  aiIn = << DeltaMsg("i1", 0, "a"), DeltaMsg("i2", 0, "b"), DeltaMsg("i1", 0, "b"),
            CompletedMsg("i2", 0, ""), CompletedMsg("i1", 0, "") >>

(* C9: a completed event carrying a non-empty explicit final text yields a  *)
(* final event with exactly that text, whatever was accumulated locally.    *)

C9_ExplicitFinalTextWins ==
  \A n \in DOMAIN aiIn :
    LET m == aiIn[n]
        e == UserEvents[EmitIndex(n)]
    IN (IsCompleted(m) /\ m.transcript # "")
       => /\ Len(UserEvents) >= EmitIndex(n)
          /\ "final" \in DOMAIN e /\ e.final = TRUE
          /\ "text" \in DOMAIN e /\ e.text = m.transcript
          /\ "append" \in DOMAIN e /\ e.append = FALSE

C9_Witness ==
  \E n \in DOMAIN aiIn :
    /\ IsCompleted(aiIn[n])
    /\ aiIn[n].transcript # ""
    /\ Fragments(KeyOf(aiIn[n]), n - 1) = "ab"

(* C10: from the first teardown trigger on, the pending-utterance map of the *)
(* session is empty in every state.                                          *)

C10_NoPendingAfterTeardown == tornDown => userTranscriptionPartials = << >>

----------------------------------------------------------------------------
(* The relay, read from the histories *)

\* The Active state of the session: started, and no teardown trigger yet.
Active == callActive /\ ~tornDown

AppendAudio(payload) == [ type |-> "input_audio_buffer.append", audio |-> payload ]

\* This step handled one more telephony frame, the last of twilioIn'.
TwilioFrameArrives == Len(twilioIn') = Len(twilioIn) + 1
ArrivingFrame == twilioIn'[Len(twilioIn')]

(* C11: while the session is Active, a telephony media frame with a payload *)
(* makes the session send exactly one append-audio message with the same    *)
(* payload on its AI connection, after those already sent, whatever the     *)
(* track of the frame; nothing else is sent on any AI connection.           *)

C11_MediaForwardedOnce ==
  [][ ( /\ Active
        /\ TwilioFrameArrives
        /\ ArrivingFrame.json
        /\ ArrivingFrame.event = "media"
        /\ ArrivingFrame.payload # "" )
      => aiSent' = [ aiSent EXCEPT ![openaiWs] =
                       Append(@, AppendAudio(ArrivingFrame.payload)) ] ]_vars

C11_Witness ==
  /\ Active
  /\ Len(twilioIn) >= 2
  /\ twilioIn[Len(twilioIn) - 1] = TwilioFrame("media", "/w==", "inbound")
  /\ twilioIn[Len(twilioIn)] = TwilioFrame("media", "AA==", "outbound")
  /\ SubSeq(aiSent[openaiWs], Len(aiSent[openaiWs]) - 1, Len(aiSent[openaiWs]))
       = << AppendAudio("/w=="), AppendAudio("AA==") >>

\* This step handled one more AI message, the last of aiIn'.
AiMessageArrives == Len(aiIn') = Len(aiIn) + 1
ArrivingMessage == aiIn'[Len(aiIn')]

MediaFrame(sid, payload) == [ event |-> "media", streamSid |-> sid, payload |-> payload ]
MarkFrame(sid) == [ event |-> "mark", streamSid |-> sid, name |-> "response_done" ]

(* C12: while the session is Active, an audio-delta event of the AI          *)
(* connection makes the session send exactly one media frame with the same   *)
(* payload and the latched stream identifier to telephony, after the frames  *)
(* already sent, and an audio-completion event makes it send exactly one     *)
(* mark frame with the latched stream identifier.                            *)

IsCallerMedia(f) ==
  f.json /\ f.event = "media" /\ f.payload # "" /\ f.track = "inbound"

\* The decoded payloads of the caller-track media frames among `frames`, in order.
RECURSIVE DecodedCallerAudio(_)
DecodedCallerAudio(frames) ==
  IF frames = << >> THEN << >>
  ELSE (IF IsCallerMedia(Head(frames))
        THEN << PcmOf(Base64Bytes(Head(frames).payload)) >>
        ELSE << >>) \o DecodedCallerAudio(Tail(frames))

(* C13: until the first teardown trigger, and so while the session is       *)
(* Active, the caller-audio buffer is the sequence of the decoded payloads  *)
(* of the caller-track media frames received so far, one chunk per frame in *)
(* arrival order; frames of another track add nothing.                      *)

C13_BufferIsCallerAudioSoFar ==
  ~tornDown => inboundAudioPcmChunks = DecodedCallerAudio(twilioIn)

C13_Witness ==
  /\ Active
  /\ Len(twilioIn) = 4
  /\ IsCallerMedia(twilioIn[1])
  /\ twilioIn[2].event = "start"
  /\ twilioIn[3] = TwilioFrame("media", "AA==", "outbound")
  /\ IsCallerMedia(twilioIn[4])
  /\ Len(inboundAudioPcmChunks) = 2

----------------------------------------------------------------------------
(* Errors and closes *)

IsErrorEvent(m) == m.type = "error"
IsBenignError(m) == IsErrorEvent(m) /\ m.code = "response_cancel_not_active"

\* The close and error events of the two sockets.
SocketEndOps == { "twilio_closed", "twilio_ws_error", "openai_closed", "openai_ws_error" }

\* What a step that ran safeClose leaves behind.
TeardownRan ==
  /\ tornDown'
  /\ twilioWs' # "OPEN"
  /\ openaiWs' # 0 => oa'[openaiWs'] # "OPEN"
  /\ ~callActive'
  /\ userTranscriptionPartials' = << >>
  /\ postCallTranscriptionStarted'
  /\ ~tornDown => published' # published

(* C14: an `error` event of the AI connection with the code                 *)
(* response_cancel_not_active changes no session state, sends nothing and   *)
(* tears nothing down; every other `error` event, one without a code        *)
(* included, and every close or error of either socket runs the teardown.   *)

C14_OnlyBenignErrorContinues ==
  [][ /\ (AiMessageArrives /\ IsBenignError(ArrivingMessage)) => St' = St
      /\ ( /\ AiMessageArrives
           /\ IsErrorEvent(ArrivingMessage)
           /\ ~IsBenignError(ArrivingMessage) ) => TeardownRan
      /\ lastOp' \in SocketEndOps => TeardownRan ]_vars

C14_Witness ==
  /\ Len(aiIn) = 2
  /\ IsBenignError(aiIn[1])
  /\ aiIn[2] = ErrorMsg("")
  /\ lastOp = "openai_error"
  /\ HasStatus("call_started")
  /\ HasStatus("call_finished")

(* C15: a frame that is not valid JSON, on the telephony socket or on an AI *)
(* socket, in any state of the session, changes no session state, sends     *)
(* nothing on either connection, publishes nothing and tears nothing down.  *)

C15_UnparsableFrameIgnored ==
  [][ lastOp' \in { "twilio_unparsable", "openai_unparsable" } => St' = St ]_vars

C15_Witness ==
  /\ lastOp = "openai_unparsable"
  /\ Active
  /\ Len(twilioIn) >= 2
  /\ twilioIn[Len(twilioIn)] = UnparsableTwilioFrame

\* Some handshake of the session failed: a socket closed without ever being
\* configured (an opened socket is sent session.update at once).
ConnectFailed == \E c \in ConnIds : oa[c] = "CLOSED" /\ aiSent[c] = << >>

CallStartedCount ==
  Cardinality({ i \in DOMAIN published : IsStatus(published[i], "call_started") })

(* C16: once opening the AI connection has failed during `start`, the       *)
(* session is aborted: the failing step attempts no other connection, and   *)
(* from the failure on the session is not active, the telephony socket is   *)
(* not open, nothing is sent to the AI side and no call_started is          *)
(* published.                                                                *)

C16_AbortedOnConnectFailure ==
  [][ ConnectFailed'
      => /\ ~callActive'
         /\ twilioWs' # "OPEN"
         /\ aiSent' = aiSent
         /\ CallStartedCount' = CallStartedCount
         /\ ~ConnectFailed
            => \A c \in ConnIds : oa'[c] = "CONNECTING" => oa[c] = "CONNECTING" ]_vars

----------------------------------------------------------------------------
(* PromptStore *)

\* The age of the record of lookup g at the time of the lookup.
AgeAt(g) == g.at - issued[g.id].createdAt

(* C17: a lookup made before the record's time-to-live has elapsed returns  *)
(* the stored record, a lookup made after it has elapsed returns not-found, *)
(* and after a lookup of an id has returned not-found every later lookup of *)
(* that id returns not-found.                                               *)

C17_LookupHonoursTimeToLive ==
  \A i \in DOMAIN lookups :
    LET g == lookups[i]
    IN IF g.id \in DOMAIN issued
       THEN /\ AgeAt(g) < EXPIRY_MS => g.p = issued[g.id]
            /\ AgeAt(g) > EXPIRY_MS => g.p = NoPrompt
            /\ \A j \in 1..(i - 1) :
                 (lookups[j].id = g.id /\ lookups[j].p = NoPrompt) => g.p = NoPrompt
       ELSE g.p = NoPrompt

C17_Witness ==
  /\ Len(lookups) = 3
  /\ \A i \in 1..3 : lookups[i].id = "p1"
  /\ lookups[1].p = issued["p1"]
  /\ lookups[2].p = NoPrompt
  /\ lookups[3].p = NoPrompt
  /\ "p1" \notin DOMAIN prompts

\* The sockets whose `start` branch resolved a prompt and sent its frames.
Configured == { c \in ConnIds : startLocals[c].started /\ aiSent[c] # << >> }

\* A `start` branch never aborts for want of a record: its socket is created
\* and the telephony socket stays open.
StartProceeds(c) == oa[c] \in { "CONNECTING", "OPEN" } /\ twilioWs = "OPEN"

(* C18 as stated: the session-configuration message references the voice    *)
(* and the model of the stored record when the promptId resolves to an      *)
(* unexpired record (voice "alloy" and model "m1" for such a record); when  *)
(* the promptId is absent, unknown or expired it references the             *)
(* process-wide defaults, and the session proceeds.                         *)

C18_ConfiguredFromRecordOrDefaults ==
  /\ \A c \in ConnIds : startLocals[c].started => StartProceeds(c)
  /\ \A c \in Configured :
       LET p == startLocals[c].p
           m == aiSent[c][1]
       IN /\ m.type = "session.update"
          /\ IF p.found
             THEN m.voice = p.voice /\ m.model = p.model
             ELSE m.voice = DEFAULT_VOICE /\ m.model = DEFAULT_MODEL

(* C18 as amended: as above for a resolved record; when the promptId is     *)
(* absent, unknown or expired the message references the voice parameter of *)
(* the `start` event, or the default voice when there is none, and the      *)
(* model parameter when it is a supported model, the default model          *)
(* otherwise, and the session proceeds.                                     *)

C18_ConfiguredFromRecordParametersOrDefaults ==
  /\ \A c \in ConnIds : startLocals[c].started => StartProceeds(c)
  /\ \A c \in Configured :
       LET p == startLocals[c].p
           params == startLocals[c].params
           m == aiSent[c][1]
       IN /\ m.type = "session.update"
          /\ IF p.found
             THEN m.voice = p.voice /\ m.model = p.model
             ELSE /\ m.voice = (IF params.voice # "" THEN params.voice ELSE DEFAULT_VOICE)
                  /\ m.model = (IF params.model \in MODEL_IDS THEN params.model
                                ELSE DEFAULT_MODEL)

C18_Witness ==
  \E c, d \in Configured :
    /\ startLocals[c].p.found
    /\ startLocals[c].p.voice = "alloy" /\ startLocals[c].p.model = "m1"
    /\ startLocals[c].params.voice = "verse"
    /\ aiSent[c][1].voice = "alloy" /\ aiSent[c][1].model = "m1"
    /\ ~startLocals[d].p.found
    /\ startLocals[d].params.promptId = "p1"
    /\ aiSent[d][1].voice = "verse"

----------------------------------------------------------------------------
(* AudioCodec against the standard mu-law companding (ITU-T G.711) *)

Decoded == lastOp = "decodeMuLawSample"

\* The standard expansion: of the inverted byte, ((mantissa << 3) + bias)
\* << exponent, less the bias, negated when the sign bit is set.
StandardMuLawExpand(byte) ==
  LET mu == 255 - byte
      exponent == (mu % 128) \div 16
      mantissa == mu % 16
      magnitude == ((mantissa * 8) + MULAW_BIAS) * (2 ^ exponent) - MULAW_BIAS
  IN IF mu \div 128 # 0 THEN 0 - magnitude ELSE magnitude

\* The segment of a biased magnitude: the first whose end is not below it.
SegmentOf(v) == CHOOSE seg \in 0..8 :
                  /\ seg < 8 => v <= 2 ^ (seg + 8) - 1
                  /\ \A lower \in 0..(seg - 1) : v > 2 ^ (lower + 8) - 1

\* The reference encoder (linear2ulaw of the G.711 reference code) on a
\* 16-bit sample.
StandardMuLawEncode(pcm) ==
  LET v == IF pcm < 0 THEN MULAW_BIAS - pcm ELSE pcm + MULAW_BIAS
      mask == IF pcm < 0 THEN 127 ELSE 255
      seg == SegmentOf(v)
      uval == IF seg >= 8 THEN 127
              ELSE seg * 16 + ((v \div (2 ^ (seg + 3))) % 16)
  IN mask - uval

\* Bit 7 of a mu-law byte is its sign, bits 4 to 6 its segment.
SameSignAndSegment(a, b) == a \div 16 = b \div 16

(* C19: re-encoding decodeMuLawSample(b) with the reference mu-law encoder  *)
(* gives b back, or a byte of the same sign and segment, for every byte b.  *)

C19_RoundTripThroughReferenceEncoder ==
  Decoded => SameSignAndSegment(StandardMuLawEncode(pcmSample), muLawByte)

(* C20: for every byte decodeMuLawSample returns the value of the standard  *)
(* mu-law expansion, and the result is in the signed 16-bit range.          *)

C20_StandardExpansionInRange ==
  Decoded => /\ pcmSample = StandardMuLawExpand(muLawByte)
             /\ pcmSample \in -32768..32767

----------------------------------------------------------------------------
(* WavContainerBuilder *)

Built == lastOp = "createWavFromPcmChunks"

RECURSIVE TotalBytes(_)
TotalBytes(chunks) ==
  IF chunks = << >> THEN 0 ELSE Len(Head(chunks)) + TotalBytes(Tail(chunks))

\* The unsigned 32-bit little-endian integer at a byte offset of a buffer.
ReadUInt32LE(buf, offset) ==
  buf[offset + 1] + 256 * buf[offset + 2] + 65536 * buf[offset + 3]
    + 16777216 * buf[offset + 4]

\* The i-th byte of the chunks taken one after the other.
RECURSIVE ByteAt(_, _)
ByteAt(chunks, i) ==
  IF i <= Len(Head(chunks)) THEN Head(chunks)[i]
  ELSE ByteAt(Tail(chunks), i - Len(Head(chunks)))

(* C21: createWavFromPcmChunks returns no result for zero chunks; for       *)
(* chunks totalling N bytes it returns exactly 44 + N bytes, whose length   *)
(* fields hold 36 + N at offset 4 and N at offset 40, followed by the bytes *)
(* of the chunks in order.                                                  *)

C21_WavLengthFieldsAndData ==
  Built =>
    IF Len(pcmChunks) = 0 THEN wav = NoBuffer
    ELSE LET N == TotalBytes(pcmChunks)
         IN /\ wav # NoBuffer
            /\ Len(wav) = 44 + N
            /\ ReadUInt32LE(wav, 4) = 36 + N
            /\ ReadUInt32LE(wav, 40) = N
            /\ \A i \in 1..N : wav[44 + i] = ByteAt(pcmChunks, i)

C21_Witness ==
  /\ Built
  /\ Len(pcmChunks) = 3
  /\ pcmChunks[2] = << >>
  /\ TotalBytes(pcmChunks) = 6
  /\ Len(wav) = 50
  /\ wav[5] = 42

----------------------------------------------------------------------------
(* Observers *)

\* The events this step broadcast, in order.
Broadcast == SubSeq(published', Len(published) + 1, Len(published'))

\* The session state a handler writes, the observers' side left out.
SessionView(s) ==
  << s.twilioWs, s.oa, s.openaiWs, s.streamSid, s.callActive, s.partials, s.chunks,
     s.started, s.fetchPending, s.submitted, s.published, s.aiSent, s.twilioSent,
     s.tornDown >>

\* The session with nobody observing and no send that throws.
Unobserved == [ St EXCEPT !.clients = { }, !.failing = { } ]

\* What the handler of this step makes of the unobserved session.
UnobservedOutcome ==
  CASE lastOp' = "openai_open" -> OnOpenAIConnected(Unobserved, openaiWs')
    [] lastOp' = "twilio_stop" -> OnStop(Unobserved, "MZ1")
    [] OTHER -> OnOpenAIMessage(Unobserved, ArrivingMessage)

(* C22: every broadcast, status or transcript, is delivered to every        *)
(* observer that is registered and open at that moment and whose send does  *)
(* not fail; an observer that is closed or whose send fails changes neither *)
(* what the other observers receive nor the state the publishing session    *)
(* is left in, which is the state it would have with nobody observing.      *)

C22_BroadcastReachesOpenObservers ==
  [][ published' # published
      => /\ IsPrefix(published, published')
         /\ \A o \in Observers :
              received'[o] =
                IF o \in transcriptClients /\ observerState[o] = "OPEN"
                   /\ o \notin sendFailures'
                THEN received[o] \o Broadcast
                ELSE received[o]
         /\ SessionView(St') = SessionView(UnobservedOutcome) ]_vars

C22_Witness ==
  /\ lastOp = "openai_message"
  /\ transcriptClients = { 1, 2 }
  /\ observerState[1] = "OPEN" /\ observerState[2] = "OPEN"
  /\ sendFailures = { 1 }
  /\ Len(published) = 2
  /\ published[2].type = "transcript"
  /\ received[2] = << StatusEvent("connected", "") >> \o published
  /\ received[1] = << StatusEvent("connected", ""), published[1] >>
  /\ Len(userTranscriptionPartials["i1:0"].text) = 1

----------------------------------------------------------------------------
(* Two sessions *)

\* The stream identifier, AI connection, caller-audio buffer, pending-utterance
\* map, active flag, transcription guard and connections of a session.
IsolationView(s) ==
  << s.streamSid, s.openaiWs, s.oa, s.chunks, s.partials, s.callActive, s.started,
     s.twilioWs >>

(* C23: sessions are isolated: a step processes an event of one session,    *)
(* and it leaves unchanged the other session's stream identifier, AI        *)
(* connection, caller-audio buffer, pending-utterance map, active flag and  *)
(* transcription guard, and closes none of its connections.                 *)

C23_SessionsIsolated ==
  [][ \/ IsolationView(St)' = IsolationView(St)
      \/ IsolationView(peer)' = IsolationView(peer) ]_vars

----------------------------------------------------------------------------
(* Session configuration *)

SessionConfigured == lastOp = "connectOpenAI"

\* The model name is the pattern followed by anything.
HasDefaultPattern(model) ==
  \E k \in 0..Len(model) :
    model = "gpt-4o-realtime-preview" \o SubSeq(model, k + 1, Len(model))

EnablesTranscription(frame) == "input_audio_transcription" \in DOMAIN frame

(* C24: the session-configuration message contains the input-transcription  *)
(* sub-configuration if and only if the selected model is in the operator's *)
(* allow-list when that list is non-empty, or, when it is empty, the model  *)
(* name starts with gpt-4o-realtime-preview; an absent model never enables  *)
(* it.                                                                      *)

C24_TranscriptionEnabledByListOrPattern ==
  /\ SessionConfigured
     => ( EnablesTranscription(configured)
          <=> IF processEnv.names # { }
              THEN configured.model \in processEnv.names
              ELSE HasDefaultPattern(configured.model) )
  /\ ~modelSupportsInputAudioTranscription("", TRANSCRIPTION_MODEL_ALLOWLIST(processEnv))

C24_Witness ==
  /\ SessionConfigured
  /\ processEnv.OPENAI_MODEL = "gpt-4o-realtime-preview-2024-12-17"
  /\ processEnv.names = { "gpt-realtime", "gpt-4o-realtime" }
  /\ ~EnablesTranscription(configured)

----------------------------------------------------------------------------
(* After the teardown *)

\* The post-call transcription has resolved: its outcome status is published.
TranscriptionOutcomePublished ==
  /\ postCallTranscriptionStarted
  /\ ~fetchPending
  /\ \/ HasStatus("post_call_transcript_ready")
     \/ HasStatus("post_call_transcription_failed")

(* C25: in every state after the post-call transcription of the session has *)
(* resolved, with success or failure, the caller-audio buffer holds no      *)
(* audio, also when media frames are received after the teardown began.     *)

C25_BufferEmptyOnceResolved ==
  TranscriptionOutcomePublished => Concat(inboundAudioPcmChunks) = << >>

\* The first teardown trigger of the session, finding caller audio buffered.
FirstTeardownWithAudio == ~tornDown /\ tornDown' /\ Len(inboundAudioPcmChunks') > 0

OutcomeStatus(e) ==
  \/ IsStatus(e, "post_call_transcript_ready")
  \/ IsStatus(e, "post_call_transcription_failed")

(* C26: the first teardown trigger closes the telephony connection and the  *)
(* session's AI connection and publishes post_call_processing in the same   *)
(* step, the transcription request still pending; no later event but the    *)
(* request resolving ends the request, whose resolution publishes the       *)
(* outcome status; and a pending request always leads to its outcome status *)
(* being published.                                                         *)

C26_TranscriptionNeitherBlocksNorCancelled ==
  /\ [][ (FirstTeardownWithAudio /\ apiKey)
         => /\ twilioWs' # "OPEN"
            /\ openaiWs' # 0 => oa'[openaiWs'] # "OPEN"
            /\ published' = Append(published, StatusEvent("post_call_processing", streamSid'))
            /\ fetchPending' ]_vars
  /\ [][ (fetchPending /\ lastOp' # "transcription_resolved") => fetchPending' ]_vars
  /\ [][ (fetchPending /\ ~fetchPending')
         => \E i \in (Len(published) + 1)..Len(published') : OutcomeStatus(published'[i]) ]_vars
  /\ fetchPending ~> (~fetchPending /\ TranscriptionOutcomePublished)

C26_Witness ==
  /\ fetchPending
  /\ tornDown
  /\ lastOp = "media"
  /\ Len(inboundAudioPcmChunks) = 2
  /\ published[Len(published)] = StatusEvent("post_call_processing", "MZ1")

(* C27: call_started is published at most once per session and never after *)
(* the session's call_finished, whatever the interleaving of the telephony  *)
(* events with the pending AI handshake.                                    *)

C27_StartedOnceAndBeforeFinished ==
  /\ CallStartedCount <= 1
  /\ \A i, j \in DOMAIN published :
       (IsStatus(published[i], "call_finished") /\ IsStatus(published[j], "call_started"))
       => j < i

(* C28: call_finished is the last observer event of the session: once it is *)
(* published, the session publishes no further status event and no further *)
(* transcript event.                                                        *)

C28_FinishedIsLastEvent ==
  \A i \in DOMAIN published :
    IsStatus(published[i], "call_finished") => i = Len(published)

----------------------------------------------------------------------------
(* The frames sent on an AI connection *)

(* C29: on each AI connection the session-configuration message is sent     *)
(* exactly once and is the first message sent, the response-create request  *)
(* is the second, and every append-audio message comes after both; a        *)
(* connection that is not open yet has been sent nothing.                   *)

C29_ConfiguredBeforeAnyAudio ==
  \A c \in ConnIds :
    /\ oa[c] \in { "NONE", "CONNECTING" } => aiSent[c] = << >>
    /\ aiSent[c] # << >>
       => /\ Len(aiSent[c]) >= 2
          /\ aiSent[c][1].type = "session.update"
          /\ aiSent[c][2].type = "response.create"
          /\ \A i \in 3..Len(aiSent[c]) : aiSent[c][i].type = "input_audio_buffer.append"

C29_Witness ==
  /\ \A c \in { 1, 2 } :
       /\ Len(aiSent[c]) = 3
       /\ aiSent[c][3] = AppendAudio("/w==")
  /\ lastOp = "media"

----------------------------------------------------------------------------
(* The aggregator, delta by delta *)

PendingKey(m) == userKeyFor(m.item_id, m.content_index)

\* The text a map of pending utterances accumulated for a key, "" when the
\* key has no entry.
AccumulatedIn(partials, key) ==
  IF key \in DOMAIN partials THEN partials[key].text ELSE ""

Accumulated(key) == AccumulatedIn(userTranscriptionPartials, key)

(* C30: on a delta event with a non-empty fragment the aggregator creates   *)
(* the entry of the key if there is none, appends the fragment to its       *)
(* accumulated text, leaves the other entries alone and emits exactly one   *)
(* event, with append = true and the fragment alone as text; and the text   *)
(* accumulated for a key is always the concatenation of the fragments       *)
(* received since its entry was created.                                    *)

C30_DeltaAppendsAndEmitsFragment ==
  /\ [][ (AiMessageArrives /\ IsDelta(ArrivingMessage) /\ ArrivingMessage.delta # "")
         => LET m == ArrivingMessage
                key == PendingKey(m)
            IN /\ DOMAIN userTranscriptionPartials' = DOMAIN userTranscriptionPartials \cup { key }
               /\ AccumulatedIn(userTranscriptionPartials', key)
                    = AccumulatedIn(userTranscriptionPartials, key) \o m.delta
               /\ \A k \in DOMAIN userTranscriptionPartials \ { key } :
                    userTranscriptionPartials'[k] = userTranscriptionPartials[k]
               /\ published' = Append(published,
                                  [ type |-> "transcript", role |-> "user", id |-> m.item_id,
                                    text |-> m.delta, append |-> TRUE ]) ]_vars
  /\ [] ( \A n \in DOMAIN aiIn :
            Accumulated(PendingKey(aiIn[n])) = Fragments(KeyOf(aiIn[n]), Len(aiIn)) )

C30_Witness ==
  /\ Len(aiIn) = 4
  /\ \A n \in { 1, 2, 4 } : IsDelta(aiIn[n]) /\ aiIn[n].item_id = "i1" /\ aiIn[n].delta # ""
  /\ IsDelta(aiIn[3]) /\ aiIn[3].item_id = "i2" /\ aiIn[3].delta = "b"
  /\ Accumulated("i1:0") = "aba"
  /\ Accumulated("i2:0") = "b"
  /\ UserEvents[4].text = "a"

----------------------------------------------------------------------------
(* C32: textFrom returns the first non-empty string among text, transcript,  *)
(* delta, content, value; a string as is; the concatenation for a sequence.  *)

\* The extraction as the claim words it: the first field holding a non-empty
\* string wins.
RECURSIVE FirstNonEmptyMatch(_)
FirstNonEmptyMatch(value) ==
  LET NonEmpty(v) == IsString(v) /\ v.str # ""
      RECURSIVE Join(_)
      Join(items) == IF items = << >> THEN ""
                     ELSE FirstNonEmptyMatch(Head(items)) \o Join(Tail(items))
  IN CASE value.kind = "string" -> value.str
       [] value.kind = "array" -> Join(value.items)
       [] value.kind = "object" ->
            LET f == value.fields
            IN CASE NonEmpty(f.text) -> f.text.str
                 [] NonEmpty(f.transcript) -> f.transcript.str
                 [] NonEmpty(f.delta) -> f.delta.str
                 [] NonEmpty(f.content) -> f.content.str
                 [] NonEmpty(f.value) -> f.value.str
                 [] OTHER -> ""
       [] OTHER -> ""

TextExtracted == lastOp = "textFrom"

\* C32: whatever payload textFrom was given, what it returned is the first
\* non-empty string among the fields text, transcript, delta, content, value of
\* an object (an empty string in an earlier field hides nothing), the string
\* itself for a string, the concatenation of the elements' extractions for a
\* sequence, and the empty string when nothing matches.
C32_FirstNonEmptyFieldWins ==
  TextExtracted => extracted = FirstNonEmptyMatch(textValue)

----------------------------------------------------------------------------
(* C31: a completed event yields one final event, with the resolved text and *)
(* append = false when that text is non-empty, with neither otherwise.       *)

IsCallerCompletion(m) == m.type \in VariantTypes("completed")
IsAgentCompletion(m) == m.type = "response.output_text.done"

\* The final text the event itself carries.
ExplicitFinalText(m) == Or(m.transcript, Or(m.text, m.delta))

\* The agent text streamed in `events` since the agent's last final event.
RECURSIVE AgentPartial(_)
AgentPartial(events) ==
  IF events = << >> THEN ""
  ELSE LET e == events[Len(events)]
           rest == SubSeq(events, 1, Len(events) - 1)
       IN IF e.type # "transcript" \/ e.role # "agent" THEN AgentPartial(rest)
          ELSE IF "final" \in DOMAIN e THEN ""
          ELSE AgentPartial(rest) \o e.text

\* The text a completed event resolves to: the explicit final text it carries,
\* else the text accumulated from the deltas of its utterance.
ResolvedText(m) ==
  Or(ExplicitFinalText(m),
     IF IsAgentCompletion(m) THEN AgentPartial(published) ELSE Accumulated(PendingKey(m)))

\* The step appended exactly one event, final, carrying `text` with
\* append = false when text is non-empty and neither field otherwise.
EmitsOneFinal(text) ==
  /\ Len(published') = Len(published) + 1
  /\ SubSeq(published', 1, Len(published)) = published
  /\ LET e == published'[Len(published')]
     IN /\ e.type = "transcript"
        /\ "final" \in DOMAIN e /\ e.final = TRUE
        /\ text # "" => /\ "text" \in DOMAIN e /\ e.text = text
                        /\ "append" \in DOMAIN e /\ e.append = FALSE
        /\ text = "" => "text" \notin DOMAIN e /\ "append" \notin DOMAIN e

\* C31: whenever a completed event arrives, a caller-transcription completion
\* of any variant or an agent text completion, the aggregator emits exactly one
\* event with final = true; the event carries the resolved text together with
\* append = false if and only if the resolved text is non-empty, and neither a
\* text nor an append field otherwise.
C31_CompletionEmitsOneFinal ==
  [][ (AiMessageArrives
       /\ (IsCallerCompletion(ArrivingMessage) \/ IsAgentCompletion(ArrivingMessage)))
      => EmitsOneFinal(ResolvedText(ArrivingMessage)) ]_vars

----------------------------------------------------------------------------
(* C33: the three caller-transcription event-name variants are equivalent    *)

IsCallerDelta(m) == m.type \in VariantTypes("delta")

\* The same event under another of the names of its kind.
Renamed(m, type) == [ m EXCEPT !.type = type ]
NamesOf(m) == IF IsCallerDelta(m) THEN VariantTypes("delta") ELSE VariantTypes("completed")

\* What the aggregator changes: the pending map and the events emitted.
AggregatorView(s) == [ partials |-> s.partials, published |-> s.published ]

\* C33: whenever a caller-transcription delta or completed event arrives, the
\* same event under either of the two other event names (same item identifier,
\* content index and text payload, in whichever of the fields delta, transcript
\* or text it is carried) would have made the same change to the pending map
\* and emitted the same outbound event.
C33_VariantsEquivalent ==
  [][ (AiMessageArrives /\ (IsCallerDelta(ArrivingMessage) \/ IsCallerCompletion(ArrivingMessage)))
      => \A type \in NamesOf(ArrivingMessage) :
           AggregatorView(OnOpenAIMessage(St, Renamed(ArrivingMessage, type)))
             = [ partials |-> userTranscriptionPartials', published |-> published' ] ]_vars

----------------------------------------------------------------------------
(* C38: coexisting pending utterances have distinct display ids              *)

\* C38: in every state, two entries of the pending map under distinct keys
\* have distinct display ids, two entries with the same item identifier and
\* different content indexes included.
C38_DisplayIdsDistinct ==
  \A k1, k2 \in DOMAIN userTranscriptionPartials :
    k1 # k2 => userTranscriptionPartials[k1].id # userTranscriptionPartials[k2].id

----------------------------------------------------------------------------
(* C34: post_call_transcript_ready exactly when the service succeeded        *)

\* The service returned a successful result: an HTTP response with ok status.
Successful(response) == response.kind = "response" /\ response.ok

ServiceAnswers == fetchPending /\ ~fetchPending'

\* The events the step published.
NewlyPublished == SubSeq(published', Len(published) + 1, Len(published'))

\* C34: post_call_transcript_ready is published if and only if the service
\* returned a successful result; when a successful result arrives, whatever
\* its text, the session publishes a final caller transcript event with the
\* post-call identifier and then the ready status; when a failure arrives it
\* publishes post_call_transcription_failed and no post-call transcript event.
C34_ReadyIffServiceSucceeded ==
  /\ [] (HasStatus("post_call_transcript_ready") <=> Successful(serviceResponse))
  /\ [][ ServiceAnswers =>
           IF Successful(serviceResponse')
           THEN /\ Len(NewlyPublished) >= 2
                /\ IsPostCallTranscript(NewlyPublished[1])
                /\ NewlyPublished[1].final = TRUE
                /\ IsStatus(NewlyPublished[2], "post_call_transcript_ready")
           ELSE /\ HasStatusIn(NewlyPublished, "post_call_transcription_failed")
                /\ \A n \in DOMAIN published' : ~IsPostCallTranscript(published'[n]) ]_vars

----------------------------------------------------------------------------
(* C36: what is buffered was relayed                                         *)

\* The step buffered the decoded audio of the frame it handled.
BuffersArrivingFrame ==
  /\ TwilioFrameArrives
  /\ Len(inboundAudioPcmChunks') = Len(inboundAudioPcmChunks) + 1

\* C36: the buffered chunks correspond one to one, in order, to append-audio
\* messages sent to the AI side for caller-track frames: whenever the session
\* buffers the decoded audio of a frame, before `start` and while the AI
\* handshake is pending included, the same step sends one append-audio message
\* with that frame's payload on an AI connection.
C36_BufferedFramesWereRelayed ==
  [][ BuffersArrivingFrame
      => \E c \in ConnIds :
           aiSent'[c] = Append(aiSent[c], AppendAudio(ArrivingFrame.payload)) ]_vars

----------------------------------------------------------------------------
(* C37: what is submitted is the buffer of the first teardown trigger        *)

\* C37: the first teardown trigger that finds audio submits the container of
\* the caller-audio buffer as it stands at that trigger; no later step, a
\* caller-track frame received after the teardown began included, changes what
\* was submitted or submits anything more; and the step in which the request
\* resolves empties the buffer, discarding the frames received meanwhile.
C37_SubmittedIsBufferAtTeardown ==
  /\ [][ (FirstTeardownWithAudio /\ apiKey)
         => submitted' = << createWavFromPcmChunks(inboundAudioPcmChunks) >> ]_vars
  /\ [][ tornDown => submitted' = submitted ]_vars
  /\ [][ (fetchPending /\ ~fetchPending') => inboundAudioPcmChunks' = << >> ]_vars

\* A caller-track frame was buffered while the request is in flight: the
\* container submitted holds the first chunk only.
C37_Witness ==
  /\ fetchPending
  /\ Len(inboundAudioPcmChunks) = 2
  /\ inboundAudioPcmChunks[2] # << >>
  /\ submitted = << createWavFromPcmChunks(SubSeq(inboundAudioPcmChunks, 1, 1)) >>

----------------------------------------------------------------------------
(* C35: the stream identifier is latched once and stamps every frame sent    *)

\* C35: the stream identifier is unset until a telephony message carries one,
\* takes the identifier of the first message that does and never changes
\* afterwards; no frame is sent to telephony while it is unset, and every frame
\* the session has sent to telephony carries the latched identifier.
C35_StreamSidLatchedOnce ==
  /\ [][ streamSid # "" => streamSid' = streamSid ]_vars
  /\ [][ (streamSid = "" /\ TwilioFrameArrives) => streamSid' = ArrivingFrame.streamSid ]_vars
  /\ [][ (streamSid = "" /\ ~TwilioFrameArrives) => streamSid' = "" ]_vars
  /\ [] ( /\ streamSid = "" => twilioSent = << >>
          /\ \A n \in DOMAIN twilioSent :
               /\ twilioSent[n].event \in { "media", "mark" }
               /\ twilioSent[n].streamSid = streamSid )

\* The session latched MZ1, later received a frame of another stream, and
\* has sent a media and a mark frame to telephony.
C35_Witness ==
  /\ streamSid = "MZ1"
  /\ \E n \in DOMAIN twilioIn : twilioIn[n].streamSid = "MZ2"
  /\ twilioSent = << MediaFrame("MZ1", "eA=="), MarkFrame("MZ1") >>

====
